---- MODULE Spec2Model ----
(***************************************************************************)
(* A model of the retrieval and ingestion core of cl-rag.                  *)
(*                                                                         *)
(*   - the merge-aware retrievers, PineconeRetriever.semantic_search and   *)
(*     QdrantRetriever.semantic_search (deep-search-rag);                  *)
(*   - the chunking ingestors, generate_collection and _chunk_document,    *)
(*     in their Pinecone (community-search-rag) and Qdrant (fast-rag)      *)
(*     variants.                                                           *)
(*                                                                         *)
(* Texts are sequences of one-character strings.  A payload (Pinecone:     *)
(* match.metadata, Qdrant: hit.payload) is a function from key strings to  *)
(* values, so that dict.get(key, default), `key in dict` and pop are what  *)
(* they are in the source.                                                 *)
(***************************************************************************)
EXTENDS Integers, Sequences, FiniteSets, TLC

VARIABLES
    search_call,    \* the arguments and the collaborators' answers of the last semantic_search call
    search_result,  \* what that call gave its caller: a list, or an exception
    store,          \* the vector store's collection: record id -> record
    ingest,         \* the local state of the running generate_collection call
    chunk_call,     \* the arguments and the return value of a _chunk_document call
    concurrent,     \* semantic_search calls running at the same time on one retriever
    embed_call,     \* the backend's answer and the outcome of an embed_content call
    parse_call,     \* the attribute string and the result of the metadata parser
    route_call      \* the collaborators' answers and the outcome of a /query handler call

vars == <<search_call, search_result, store, ingest, chunk_call, concurrent,
          embed_call, parse_call, route_call>>

(***************************************************************************)
(* Bounds of the model.                                                    *)
(***************************************************************************)
\* Longest ranking of the general family of store answers.
MaxHits == 3
\* Scores are 1..MaxScore (higher = more similar).
MaxScore == 2
\* Chunk indexes of the general family are 0..MaxIdx.
MaxIdx == 1
\* top_k is drawn from 1..MaxTopK.
MaxTopK == 2
\* Largest chunk group of the one-parent family of store answers.
MaxGroup == 6
\* Most rows of df_docs.
MaxDocs == 2
\* Most calls of generate_collection in one behaviour.
MaxRuns == 2
\* Stands for MAX_CHUNK_SIZE, which the source sets to 5000 characters; the
\* documents of the model are a few characters long.
MaxChunkSize == 4
\* Stands for the batch size of the Qdrant ingestor, `len(points) >= 50`.
BatchSize == 2
\* Longest text handed to _chunk_document on its own.
MaxTextLen == 5
\* Longest query embedding.
MaxVectorLen == 2
\* semantic_search calls that run at the same time.
MaxCalls == 2
\* Most attributes in one attribute string.
MaxAttrs == 3
\* Most documents a retriever hands to a route handler.
MaxRouteDocs == 2
EmbeddingDim == 3     \* stands for the 768 dimensions of an embedding vector
MinVectorLen == 2     \* stands for the 100 values below which a list is no embedding

(***************************************************************************)
(* Program constants.                                                      *)
(***************************************************************************)
\* search_limit = top_k * 5
OverfetchFactor == 5
\* if len(matches) > 5: matches = matches[:5]
MaxChunksCombined == 5

FileNames == {"a", "b"}
Scores == 1..MaxScore

(***************************************************************************)
(* dict and list helpers.                                                  *)
(***************************************************************************)
\* dict.get(k, d)
Get(p, k, d) == IF k \in DOMAIN p THEN p[k] ELSE d

\* d[k] = v
Put(p, k, v) == [x \in (DOMAIN p) \cup {k} |-> IF x = k THEN v ELSE p[x]]

\* the dict without the keys ks (pop(k, None) / del d[k] for each k present)
Without(p, ks) == [x \in (DOMAIN p) \ ks |-> p[x]]

\* seq[:n]
Take(seq, n) == SubSeq(seq, 1, IF n < Len(seq) THEN n ELSE Len(seq))

\* max(list) of a non-empty list of numbers
MaxOf(nums) == CHOOSE m \in {nums[i] : i \in 1..Len(nums)} :
                   \A i \in 1..Len(nums) : nums[i] <= m

\* sep.join(texts)
RECURSIVE Join(_, _)
Join(texts, sep) ==
    IF Len(texts) = 0 THEN <<>>
    ELSE IF Len(texts) = 1 THEN texts[1]
    ELSE texts[1] \o sep \o Join(Tail(texts), sep)

(***************************************************************************)
(* str helpers and _chunk_document.                                        *)
(***************************************************************************)
\* whether sep stands at position k of text
IsAt(text, sep, k) ==
    /\ k + Len(sep) - 1 <= Len(text)
    /\ SubSeq(text, k, k + Len(sep) - 1) = sep

\* the position of the first occurrence of sep in text, or 0
Find(text, sep) ==
    IF \E k \in 1..Len(text) : IsAt(text, sep, k)
    THEN CHOOSE k \in 1..Len(text) :
            IsAt(text, sep, k) /\ \A j \in 1..(k - 1) : ~IsAt(text, sep, j)
    ELSE 0

\* text.split(sep), sep not empty
RECURSIVE Split(_, _)
Split(text, sep) ==
    LET k == Find(text, sep)
    IN IF k = 0 THEN <<text>>
       ELSE <<SubSeq(text, 1, k - 1)>> \o Split(SubSeq(text, k + Len(sep), Len(text)), sep)

\* text.replace(old, new), old not empty
RECURSIVE Replace(_, _, _)
Replace(text, old, new) ==
    LET k == Find(text, old)
    IN IF k = 0 THEN text
       ELSE SubSeq(text, 1, k - 1) \o new
                \o Replace(SubSeq(text, k + Len(old), Len(text)), old, new)

\* The sentence loop of _chunk_document, on [chunks, sub_chunk].
RECURSIVE SentenceLoop(_, _, _)
SentenceLoop(st, sentences, max_chunk_size) ==
    IF Len(sentences) = 0 THEN st
    ELSE LET sentence == sentences[1]
             next ==
                IF Len(st.sub_chunk) + Len(sentence) + 1 > max_chunk_size
                THEN [chunks |-> Append(st.chunks, st.sub_chunk), sub_chunk |-> sentence]
                ELSE IF st.sub_chunk # <<>>
                THEN [st EXCEPT !.sub_chunk = @ \o <<" ">> \o sentence]
                ELSE [st EXCEPT !.sub_chunk = sentence]
         IN SentenceLoop(next, Tail(sentences), max_chunk_size)

\* A slip: the two characters of the paragraph separator are not counted.
ParagraphStep_noSeparator(st, para, max_chunk_size) ==
    IF Len(st.current_chunk) + Len(para) > max_chunk_size
    THEN LET chunks == IF st.current_chunk # <<>>
                       THEN Append(st.chunks, st.current_chunk) ELSE st.chunks
         IN IF Len(para) > max_chunk_size
            THEN LET sentences == Split(Replace(para, <<".", " ">>, <<".", "\n">>), <<"\n">>)
                     s == SentenceLoop([chunks |-> chunks, sub_chunk |-> <<>>],
                                       sentences, max_chunk_size)
                 IN [chunks |-> s.chunks, current_chunk |-> s.sub_chunk]
            ELSE [chunks |-> chunks, current_chunk |-> para]
    ELSE IF st.current_chunk # <<>>
    THEN [st EXCEPT !.current_chunk = @ \o <<"\n", "\n">> \o para]
    ELSE [st EXCEPT !.current_chunk = para]

\* A slip: the running buffer is not flushed when the next paragraph does not
\* fit.
ParagraphStep_dropsBuffer(st, para, max_chunk_size) ==
    IF Len(st.current_chunk) + Len(para) + 2 > max_chunk_size
    THEN IF Len(para) > max_chunk_size
         THEN LET sentences == Split(Replace(para, <<".", " ">>, <<".", "\n">>), <<"\n">>)
                  s == SentenceLoop([chunks |-> st.chunks, sub_chunk |-> <<>>],
                                    sentences, max_chunk_size)
              IN [chunks |-> s.chunks, current_chunk |-> s.sub_chunk]
         ELSE [chunks |-> st.chunks, current_chunk |-> para]
    ELSE IF st.current_chunk # <<>>
    THEN [st EXCEPT !.current_chunk = @ \o <<"\n", "\n">> \o para]
    ELSE [st EXCEPT !.current_chunk = para]

\* One iteration of the paragraph loop of _chunk_document, on
\* [chunks, current_chunk].
ParagraphStep(st, para, max_chunk_size) ==
    IF Len(st.current_chunk) + Len(para) + 2 > max_chunk_size
    THEN LET chunks == IF st.current_chunk # <<>>
                       THEN Append(st.chunks, st.current_chunk) ELSE st.chunks
         IN IF Len(para) > max_chunk_size
            THEN LET sentences == Split(Replace(para, <<".", " ">>, <<".", "\n">>), <<"\n">>)
                     s == SentenceLoop([chunks |-> chunks, sub_chunk |-> <<>>],
                                       sentences, max_chunk_size)
                 IN [chunks |-> s.chunks, current_chunk |-> s.sub_chunk]
            ELSE [chunks |-> chunks, current_chunk |-> para]
    ELSE IF st.current_chunk # <<>>
    THEN [st EXCEPT !.current_chunk = @ \o <<"\n", "\n">> \o para]
    ELSE [st EXCEPT !.current_chunk = para]

RECURSIVE ParagraphLoop(_, _, _)
ParagraphLoop(st, paragraphs, max_chunk_size) ==
    IF Len(paragraphs) = 0 THEN st
    ELSE ParagraphLoop(ParagraphStep(st, paragraphs[1], max_chunk_size),
                       Tail(paragraphs), max_chunk_size)

\* A slip: the early return for a text that fits is missing.
ChunkDocument_noShortcut(text, max_chunk_size) ==
    LET st == ParagraphLoop([chunks |-> <<>>, current_chunk |-> <<>>],
                            Split(text, <<"\n", "\n">>), max_chunk_size)
    IN IF st.current_chunk # <<>> THEN Append(st.chunks, st.current_chunk)
       ELSE st.chunks

\* _chunk_document(text, max_chunk_size)
ChunkDocument(text, max_chunk_size) ==
    IF Len(text) <= max_chunk_size THEN <<text>>
    ELSE LET st == ParagraphLoop([chunks |-> <<>>, current_chunk |-> <<>>],
                                 Split(text, <<"\n", "\n">>), max_chunk_size)
         IN IF st.current_chunk # <<>> THEN Append(st.chunks, st.current_chunk)
            ELSE st.chunks

(***************************************************************************)
(* The merge-aware retriever: semantic_search.                             *)
(*                                                                         *)
(* A hit is [score, payload]; the steps below are shared by the two        *)
(* retrievers, whose code differs in the error handling and in how an      *)
(* entry is built.                                                         *)
(***************************************************************************)

\* hits.sort(key=lambda x: x.payload.get("chunk_index", 0)) : stable, ascending
RECURSIVE SortByChunkIndex(_)
SortByChunkIndex(matches) ==
    IF Len(matches) = 0 THEN <<>>
    ELSE LET rest == SortByChunkIndex(SubSeq(matches, 1, Len(matches) - 1))
             x    == matches[Len(matches)]
             kx   == Get(x.payload, "chunk_index", 0)
             \* the last element goes after every element whose key is <= its own
             pos  == Cardinality({i \in 1..Len(rest) :
                                     Get(rest[i].payload, "chunk_index", 0) <= kx})
         IN SubSeq(rest, 1, pos) \o <<x>> \o SubSeq(rest, pos + 1, Len(rest))

\* A plausible slip: the candidates are left in the order they were collected.
SortByScoreDesc_unsorted(cands) == cands

\* unique_results.sort(key=score, reverse=True) : stable, descending
RECURSIVE SortByScoreDesc(_)
SortByScoreDesc(cands) ==
    IF Len(cands) = 0 THEN <<>>
    ELSE LET rest == SortByScoreDesc(SubSeq(cands, 1, Len(cands) - 1))
             x    == cands[Len(cands)]
             pos  == Cardinality({i \in 1..Len(rest) : rest[i].score >= x.score})
         IN SubSeq(rest, 1, pos) \o <<x>> \o SubSeq(rest, pos + 1, Len(rest))

\* search_limit = top_k * 5
SearchLimit(top_k) == top_k * OverfetchFactor

\* A plausible slip: the cut keeps the end of the sorted list.
TruncateToTopK_tail(cands, top_k) ==
    SubSeq(cands, IF top_k < Len(cands) THEN Len(cands) - top_k + 1 ELSE 1, Len(cands))

\* A plausible slip: the list is cut to the over-fetched search limit.
TruncateToTopK_limit(cands, top_k) == Take(cands, SearchLimit(top_k))

\* unique_results = unique_results[:top_k]
TruncateToTopK(cands, top_k) == Take(cands, top_k)

\* chunked_docs is a dict in insertion order: a sequence of [key, matches]
HasKey(chunked_docs, k) == \E i \in 1..Len(chunked_docs) : chunked_docs[i].key = k

\* del chunked_docs[k]
DelKey(chunked_docs, k) ==
    LET Keep(e) == e.key # k IN SelectSeq(chunked_docs, Keep)

\* if k not in chunked_docs: chunked_docs[k] = [] ; chunked_docs[k].append(h)
AppendMatch(chunked_docs, k, h) ==
    IF HasKey(chunked_docs, k)
    THEN [i \in 1..Len(chunked_docs) |->
             IF chunked_docs[i].key = k
             THEN [chunked_docs[i] EXCEPT !.matches = Append(@, h)]
             ELSE chunked_docs[i]]
    ELSE Append(chunked_docs, [key |-> k, matches |-> <<h>>])

\* A plausible slip: every whole-document hit becomes a candidate, seen
\* before or not.
FirstPassStep_noSeenCheck(st, h) ==
    IF DOMAIN h.payload = {}
    THEN st
    ELSE IF Get(h.payload, "is_chunk", FALSE)
    THEN [st EXCEPT !.chunked_docs =
             AppendMatch(@, Get(h.payload, "parent_document", ""), h)]
    ELSE LET doc_id == Get(h.payload, "filename", "")
         IN [parent_documents |-> st.parent_documents \cup {doc_id},
             unique_results   |-> Append(st.unique_results, h),
             chunked_docs     |-> DelKey(st.chunked_docs, doc_id)]

\* A plausible slip: a later whole-document hit of a filename takes the
\* place of the earlier one.
FirstPassStep_lastSeen(st, h) ==
    IF DOMAIN h.payload = {}
    THEN st
    ELSE IF Get(h.payload, "is_chunk", FALSE)
    THEN [st EXCEPT !.chunked_docs =
             AppendMatch(@, Get(h.payload, "parent_document", ""), h)]
    ELSE LET doc_id == Get(h.payload, "filename", "")
             Other(c) == Get(c.payload, "filename", "") # doc_id
         IN [parent_documents |-> st.parent_documents \cup {doc_id},
             unique_results   |-> Append(SelectSeq(st.unique_results, Other), h),
             chunked_docs     |-> DelKey(st.chunked_docs, doc_id)]

\* One iteration of the first pass over results.matches.
FirstPassStep(st, h) ==
    IF DOMAIN h.payload = {}
    THEN st                                     \* if not metadata: continue
    ELSE IF Get(h.payload, "is_chunk", FALSE)
    THEN [st EXCEPT !.chunked_docs =
             AppendMatch(@, Get(h.payload, "parent_document", ""), h)]
    ELSE LET doc_id == Get(h.payload, "filename", "")
         IN IF doc_id \in st.parent_documents
            THEN st
            ELSE [parent_documents |-> st.parent_documents \cup {doc_id},
                  unique_results   |-> Append(st.unique_results, h),
                  chunked_docs     |-> DelKey(st.chunked_docs, doc_id)]

\* The first pass: identify chunks and unique documents.
RECURSIVE FirstPass(_, _)
FirstPass(st, hits) ==
    IF Len(hits) = 0 THEN st
    ELSE FirstPass(FirstPassStep(st, hits[1]), Tail(hits))

\* highest_score = max([match.score for match in matches])
HighestScore(matches) == MaxOf([i \in 1..Len(matches) |-> matches[i].score])

\* A plausible slip: the five highest-scoring chunks are kept.
CapGroup_byScore(matches) ==
    IF Len(matches) > MaxChunksCombined
    THEN SortByChunkIndex(Take(SortByScoreDesc(matches), MaxChunksCombined))
    ELSE matches

\* if len(matches) > 5: matches = matches[:5]
CapGroup(matches) ==
    IF Len(matches) > MaxChunksCombined THEN Take(matches, MaxChunksCombined)
    ELSE matches

\* A plausible slip: the highest score is taken over the whole group, before
\* the group is cut to its first five chunks.
CombineChunks_scoreBeforeCap(parent_doc, group) ==
    LET matches  == CapGroup(SortByChunkIndex(group))
        combined_text ==
            Join([i \in 1..Len(matches) |-> Get(matches[i].payload, "text", <<>>)],
                 <<"\n", "\n">>)
        p1 == Put(matches[1].payload, "text", combined_text)
        p2 == Put(p1, "filename", parent_doc)
        p3 == Put(p2, "is_combined_chunks", TRUE)
        p4 == Put(p3, "num_chunks_combined", Len(matches))
    IN [score |-> HighestScore(group), payload |-> p4]

\* A plausible slip: the chunks are counted before the group is cut to its
\* first five.
CombineChunks_countBeforeCap(parent_doc, group) ==
    LET matches  == CapGroup(SortByChunkIndex(group))
        combined_text ==
            Join([i \in 1..Len(matches) |-> Get(matches[i].payload, "text", <<>>)],
                 <<"\n", "\n">>)
        p1 == Put(matches[1].payload, "text", combined_text)
        p2 == Put(p1, "filename", parent_doc)
        p3 == Put(p2, "is_combined_chunks", TRUE)
        p4 == Put(p3, "num_chunks_combined", Len(group))
    IN [score |-> HighestScore(matches), payload |-> p4]

\* The combined candidate of one chunk group.
CombineChunks(parent_doc, group) ==
    LET matches  == CapGroup(SortByChunkIndex(group))
        combined_text ==
            Join([i \in 1..Len(matches) |-> Get(matches[i].payload, "text", <<>>)],
                 <<"\n", "\n">>)
        p1 == Put(matches[1].payload, "text", combined_text)
        p2 == Put(p1, "filename", parent_doc)
        p3 == Put(p2, "is_combined_chunks", TRUE)
        p4 == Put(p3, "num_chunks_combined", Len(matches))
    IN [score |-> HighestScore(matches), payload |-> p4]

\* A plausible slip: the check for an accepted whole document is left out.
SkipGroup_never(parent_doc, parent_documents) == FALSE

\* if parent_doc in parent_documents: continue
SkipGroup(parent_doc, parent_documents) == parent_doc \in parent_documents

\* The second pass: combine the chunks of each parent document.
RECURSIVE SecondPass(_, _)
SecondPass(st, groups) ==
    IF Len(groups) = 0 THEN st
    ELSE LET g == groups[1]
         IN IF SkipGroup(g.key, st.parent_documents)
            THEN SecondPass(st, Tail(groups))
            ELSE SecondPass(
                   [st EXCEPT !.parent_documents = @ \cup {g.key},
                              !.unique_results = Append(@, CombineChunks(g.key, g.matches))],
                   Tail(groups))

\* The candidates in rank order, cut to top_k.
RankedCandidates(hits, top_k) ==
    LET st1 == FirstPass([parent_documents |-> {}, unique_results |-> <<>>,
                          chunked_docs |-> <<>>], hits)
        st2 == SecondPass(st1, st1.chunked_docs)
    IN TruncateToTopK(SortByScoreDesc(st2.unique_results), top_k)

NoteOf(n) == "Document combined from " \o ToString(n) \o " parts"

InternalKeys == {"is_chunk", "chunk_index", "total_chunks", "parent_document"}

\* The Result Entry of one candidate (both retrievers), given the number the
\* note states.
EntryWith(cand, num) ==
    LET metadata == Without(cand.payload, {"text"})
        noted == IF "is_combined_chunks" \in DOMAIN metadata
                 THEN Without(Put(metadata, "note", NoteOf(num)),
                              {"is_combined_chunks", "num_chunks_combined"})
                 ELSE metadata
    IN [text     |-> Get(cand.payload, "text", <<>>),
        score    |-> cand.score,
        metadata |-> Without(noted, InternalKeys)]

\* PineconeRetriever: metadata_dict.get('num_chunks_combined', 0)
PineconeEntry(cand) == EntryWith(cand, Get(cand.payload, "num_chunks_combined", 0))

\* QdrantRetriever: metadata['num_chunks_combined'] is a KeyError when the key is absent
QdrantEntryRaises(cand) ==
    /\ "is_combined_chunks" \in DOMAIN cand.payload
    /\ "num_chunks_combined" \notin DOMAIN cand.payload

QdrantEntry(cand) == EntryWith(cand, Get(cand.payload, "num_chunks_combined", 0))

\* _sanitize_data on a list of entries: every str, int and bool is returned as
\* it is, every dict and list is rebuilt from its sanitized members.
SanitizeData(output) ==
    [i \in 1..Len(output) |->
        [text     |-> output[i].text,
         score    |-> output[i].score,
         metadata |-> [k \in DOMAIN output[i].metadata |-> output[i].metadata[k]]]]

Returned(entries) == [raised |-> FALSE, entries |-> entries]
Raised == [raised |-> TRUE, entries |-> <<>>]

\* PineconeRetriever.semantic_search: the whole body is inside try/except
\* Exception, and the index query has a try/except of its own; both return [].
PineconeSearchResult(embedding_ok, query_ok, hits, top_k) ==
    IF ~embedding_ok THEN Returned(<<>>)
    ELSE IF ~query_ok THEN Returned(<<>>)
    ELSE LET ranked == RankedCandidates(hits, top_k)
         IN Returned(SanitizeData([i \in 1..Len(ranked) |-> PineconeEntry(ranked[i])]))

\* QdrantRetriever.semantic_search: no try/except, an exception of embed_content,
\* of client.search or of the entry loop leaves the method.
QdrantSearchResult(embedding_ok, query_ok, hits, top_k) ==
    IF ~embedding_ok \/ ~query_ok THEN Raised
    ELSE LET ranked == RankedCandidates(hits, top_k)
         IN IF \E i \in 1..Len(ranked) : QdrantEntryRaises(ranked[i])
            THEN Raised
            ELSE Returned([i \in 1..Len(ranked) |-> QdrantEntry(ranked[i])])

(***************************************************************************)
(* What the vector store can answer to a query: rankings of stored         *)
(* records.  The payloads are those the ingestors write.                   *)
(***************************************************************************)
PartName(f, i, n) == f \o " [Part " \o ToString(i + 1) \o "/" \o ToString(n) \o "]"

ChunkText(f, i) == <<f, ToString(i)>>

WholeHit(f, s) == [score |-> s, payload |-> [filename |-> f, text |-> <<f>>]]

ChunkHit(f, i, n, s) ==
    [score |-> s,
     payload |-> [filename |-> PartName(f, i, n), text |-> ChunkText(f, i),
                  is_chunk |-> TRUE, chunk_index |-> i, total_chunks |-> n,
                  parent_document |-> f]]

\* a stored record without metadata
BareHit(s) == [score |-> s, payload |-> <<>>]

\* a whole document whose own attributes use a name the retriever uses too
\* (the Pinecone ingestor flattens the parsed meta_data into the record)
StrayHit(f, s) ==
    [score |-> s,
     payload |-> [filename |-> f, text |-> <<f>>, num_chunks_combined |-> 3]]

HitUniverse ==
    {WholeHit(f, s) : f \in FileNames, s \in Scores}
    \cup {ChunkHit(c[1], c[2], MaxIdx + 1, c[3]) :
             c \in FileNames \X (0..MaxIdx) \X {1, MaxScore}}

\* The general family: every list of at most MaxHits hits, in any order.
GeneralRankings == UNION {[1..n -> HitUniverse] : n \in 0..MaxHits}

\* The one-parent family: the n chunks of document "a", returned from chunk
\* `first` on and wrapping around, the first `high` of them with the top
\* score, followed or not by the whole document "b".
GroupRanking(n, first, high, tail) ==
    [i \in 1..n |-> ChunkHit("a", (first + i - 1) % n, n,
                             IF i <= high THEN MaxScore ELSE 1)] \o tail

GroupRankings ==
    {GroupRanking(c[1], c[2], c[3], c[4]) :
        c \in {d \in (1..MaxGroup) \X (0..(MaxGroup - 1)) \X (0..MaxGroup)
                       \X {<<>>, <<WholeHit("b", 1)>>} :
                  d[2] < d[1] /\ d[3] <= d[1]}}

\* The odd-record family: a whole document carrying a retriever key, or a
\* record without metadata, alone or ranked above a chunk.
StrayRankings ==
    {<<h>> : h \in {StrayHit(f, s) : f \in FileNames, s \in Scores}
                    \cup {BareHit(s) : s \in Scores}}
    \cup {<<h, ChunkHit(g, 0, MaxIdx + 1, 1)>> :
             h \in {StrayHit(f, MaxScore) : f \in FileNames} \cup {BareHit(MaxScore)},
             g \in FileNames}

Rankings == GeneralRankings \cup GroupRankings \cup StrayRankings

(***************************************************************************)
(* The query embedding.  A float is written as its text; "nan", "inf" and  *)
(* "-inf" are the values that are not finite.                              *)
(***************************************************************************)
NonFinite == {"nan", "inf", "-inf"}
Floats == NonFinite \cup {"0.0", "1.5"}

QueryVectors == UNION {[1..n -> Floats] : n \in 0..MaxVectorLen}

PlainVector == <<"1.5">>

\* Pinecone: the loop over query_vector before index.query, which puts 0.0
\* in place of a value that is NaN or an infinity.
PineconeStoreQuery(query_vector) ==
    [i \in 1..Len(query_vector) |->
        IF query_vector[i] \in NonFinite THEN "0.0" ELSE query_vector[i]]

\* Qdrant: client.search(query_vector=query_vector) takes the embedding as
\* the embedding client returned it.
QdrantStoreQuery(query_vector) == query_vector

\* What one call is given: the embedding of the query and the ranking of the
\* store.  Every ranking is tried with a plain embedding, every embedding
\* with an empty collection and with a collection of one document.
SearchInputs ==
    {[query_vector |-> PlainVector, ranking |-> r] : r \in Rankings}
    \cup {[query_vector |-> v, ranking |-> r] :
             v \in QueryVectors, r \in {<<>>, <<WholeHit("a", 1)>>}}

\* No semantic_search calls run side by side.
NoConcurrentCalls == [retriever |-> "pinecone", calls |-> <<>>, frames |-> <<>>]

\* embed_content has not been called.
NoEmbedCall == [called |-> FALSE, api |-> [kind |-> "none"], raised |-> "no", vector |-> <<>>]

\* The metadata parser has not run.
NoParseCall ==
    [called |-> FALSE, attrs |-> <<>>, sep |-> <<>>, metadata_str |-> <<>>, metadata |-> <<>>]

\* No /query handler has been called.
NoRouteCall == [called |-> FALSE, handler |-> "none"]

\* _chunk_document has not been called.
NoChunkCall(text, max_chunk_size) ==
    [text |-> text, max_chunk_size |-> max_chunk_size, called |-> FALSE, chunks |-> <<>>]

(***************************************************************************)
(* The chunking ingestors: generate_collection.                            *)
(*                                                                         *)
(* store is the collection, record id -> stored metadata (the embedding    *)
(* vectors are left out).  ingest holds the locals of generate_collection, *)
(* the answers the embedding client gave (log) and the upserts that        *)
(* reached the store or failed (writes).                                   *)
(***************************************************************************)
Variants == {"pinecone", "qdrant"}

ShortText == <<"x">>
ThreeParagraphs == <<"a", "b", "\n", "\n", "c", "d", "\n", "\n", "e", "f">>

\* A row of df_docs; is_str is isinstance(content, str).
Row(file_name, content) ==
    [file_name |-> file_name, content |-> content, is_str |-> TRUE,
     meta_data |-> [source |-> "web"], last_updated |-> ""]

BadRow(file_name) == [Row(file_name, <<>>) EXCEPT !.is_str = FALSE]

RowUniverse == {Row("a", ShortText), Row("a", ThreeParagraphs), BadRow("b")}

DocFrames == UNION {[1..n -> RowUniverse] : n \in 0..MaxDocs}

\* What embedding a whole document can give: a vector, InvalidArgument with
\* "400 Request payload size exceeds the limit", another InvalidArgument, or
\* any other exception raised inside the try block.
EmbedOutcomes == {"ok", "size_limit", "invalid_argument", "error"}

\* {**base, **over}
Merge(base, over) ==
    [k \in (DOMAIN base) \cup (DOMAIN over) |->
        IF k \in DOMAIN over THEN over[k] ELSE base[k]]

\* the parsed attributes of the row, with metadata["last_updated"] set
RowMetadata(row) ==
    Put(row.meta_data, "last_updated",
        IF row.last_updated # "" THEN row.last_updated ELSE "")

\* Pinecone: {"filename": file_name, "text": content, **metadata}
PineconeDocRecord(row) ==
    Merge([filename |-> row.file_name, text |-> row.content], RowMetadata(row))

\* Pinecone: the metadata of chunk i (0-based) of the row
PineconeChunkRecord(row, chunks, i) ==
    Merge([filename |-> PartName(row.file_name, i, Len(chunks)),
           text |-> chunks[i + 1], is_chunk |-> TRUE, chunk_index |-> i,
           total_chunks |-> Len(chunks), parent_document |-> row.file_name],
          RowMetadata(row))

PineconeDocId(point_id) == "doc_" \o ToString(point_id)

PineconeChunkId(point_id, i) ==
    "chunk_" \o ToString(point_id) \o "_" \o ToString(i)

\* Qdrant: payload of a whole document
QdrantDocPayload(row) ==
    [filename |-> row.file_name, metadata |-> RowMetadata(row), text |-> row.content]

\* Qdrant: chunk_payload of chunk i (0-based) of the row
QdrantChunkPayload(row, chunks, i) ==
    [filename |-> PartName(row.file_name, i, Len(chunks)),
     metadata |-> RowMetadata(row), text |-> chunks[i + 1], is_chunk |-> TRUE,
     chunk_index |-> i + 1, total_chunks |-> Len(chunks),
     parent_document |-> row.file_name]

\* upsert of a list of [id, payload]: a later record of the list replaces an
\* earlier one with its id, and any stored record with its id
Upsert(st, recs) ==
    LET ids == {recs[i].id : i \in 1..Len(recs)}
        Last(id) == CHOOSE i \in 1..Len(recs) :
                       /\ recs[i].id = id
                       /\ \A j \in (i + 1)..Len(recs) : recs[j].id # id
    IN [k \in (DOMAIN st) \cup ids |->
           IF k \in ids THEN recs[Last(k)].payload ELSE st[k]]

IdsOf(recs) == [i \in 1..Len(recs) |-> recs[i].id]

\* A slip: the first chunk that fails ends the chunk loop.
OkIndexes_stopAtFailure(chunks_ok) ==
    LET Ok(i) == \A j \in 1..(i + 1) : chunks_ok[j]
    IN SelectSeq([i \in 1..Len(chunks_ok) |-> i - 1], Ok)

\* the 0-based indexes of the chunks whose embedding succeeded, in order
\* (the Qdrant chunk loop appends a point for each of them)
OkIndexes(chunks_ok) ==
    LET Ok(i) == chunks_ok[i + 1]
    IN SelectSeq([i \in 1..Len(chunks_ok) |-> i - 1], Ok)

\* What the call did last: the answer of the embedding client for the
\* document of the row (outcome) and for the chunks of the row taken so far
\* (chunks_ok), and the upserts the last step issued.
Step(outcome, chunks_ok, writes) ==
    [outcome |-> outcome, chunks_ok |-> chunks_ok, writes |-> writes]

\* The locals of a call that has just entered its loop; found_vectors tells
\* whether the call found at least one vector in the collection, written is
\* the set of record ids the call has written so far.
LoopEntry(ing, st) ==
    [ing EXCEPT !.pc = "loop", !.runs = @ + 1, !.pos = 0, !.points = <<>>,
                !.point_id = 1, !.processed_count = 0, !.skipped = FALSE,
                !.found_vectors = Cardinality(DOMAIN st) > 0, !.written = {},
                !.last = Step("start", <<>>, <<>>)]

\* Pinecone generate_collection up to the loop: _create_index keeps an
\* existing index; describe_index_stats answers (a call with vectors in the
\* index returns at once) or raises (the call goes on).
PineconeStart(ing, st, stats_ok) ==
    IF stats_ok /\ Cardinality(DOMAIN st) > 0
    THEN [ingest |-> [LoopEntry(ing, st) EXCEPT !.pc = "done", !.skipped = TRUE],
          store |-> st]
    ELSE [ingest |-> LoopEntry(ing, st), store |-> st]

\* Qdrant generate_collection up to the loop: _create_collection is
\* client.recreate_collection, which drops the collection and creates it anew.
QdrantStart(ing, st) ==
    [ingest |-> LoopEntry(ing, st), store |-> <<>>]

\* processed_count += 1
Processed(ing) == [ing EXCEPT !.processed_count = @ + 1]

\* The row at pos + 1 has been taken from df_docs and the embedding client has
\* answered o for the document and c for its chunks.
Logged(ing, o, c) ==
    [ing EXCEPT !.pos = @ + 1, !.last = Step(o, c, <<>>)]

\* A slip: an embedding error other than the size limit ends the loop.
EmbedFailed_abort(ing, outcome) ==
    [Logged(ing, outcome, <<>>) EXCEPT !.pos = Len(ing.docs)]

\* The embedding of the whole document raised something other than the size
\* limit: the except clause logs it, nothing is stored, the loop goes on.
EmbedFailed(ing, outcome) == Logged(ing, outcome, <<>>)

\* One pass of `for i, chunk in enumerate(chunks)` of the Pinecone ingestor,
\* on the next chunk of the row at pos: the embedding and the upsert of the
\* chunk succeed (ok) or one of them raises, which is logged. The chunk is
\* written by itself, before the next chunk is embedded; after the last
\* chunk the pass of the row loop ends with processed_count += 1.
PineconeChunk(ing, st, ok) ==
    LET row    == ing.docs[ing.pos]
        chunks == ChunkDocument(row.content, MaxChunkSize)
        i      == Len(ing.last.chunks_ok)
        rec    == [id |-> PineconeChunkId(ing.point_id, i),
                   payload |-> PineconeChunkRecord(row, chunks, i)]
        taken  == [ing EXCEPT
                      !.last.chunks_ok = Append(@, ok),
                      !.last.writes = IF ok THEN <<[ids |-> <<rec.id>>, ok |-> TRUE]>>
                                      ELSE <<>>,
                      !.written = IF ok THEN @ \cup {rec.id} ELSE @]
    IN [ingest |-> IF i + 1 = Len(chunks)
                   THEN Processed([taken EXCEPT !.pc = "loop"])
                   ELSE taken,
        store |-> IF ok THEN Upsert(st, <<rec>>) ELSE st]

\* One iteration of the Pinecone loop on row, up to its end or, when the
\* embedding of the whole document hits the size limit, up to the embedding
\* of the first chunk (pc = "chunks").
PineconeRow(ing, st, row, outcome) ==
    IF ~row.is_str
    THEN [ingest |-> Logged(ing, "not_str", <<>>), store |-> st]   \* continue
    ELSE IF outcome = "ok"
    THEN LET rec == [id |-> PineconeDocId(ing.point_id),
                     payload |-> PineconeDocRecord(row)]
         IN [ingest |-> Processed([Logged(ing, "ok", <<>>) EXCEPT
                           !.point_id = @ + 1,
                           !.written = @ \cup {rec.id},
                           !.last.writes = <<[ids |-> <<rec.id>>, ok |-> TRUE]>>]),
             store |-> Upsert(st, <<rec>>)]
    ELSE IF outcome = "size_limit"
    THEN LET chunks == ChunkDocument(row.content, MaxChunkSize)
         IN [ingest |-> IF Len(chunks) = 0
                        THEN Processed(Logged(ing, "size_limit", <<>>))
                        ELSE [Logged(ing, "size_limit", <<>>) EXCEPT !.pc = "chunks"],
             store |-> st]
    ELSE [ingest |-> Processed(EmbedFailed(ing, outcome)), store |-> st]

\* A slip: the pending points are cleared whether the upsert succeeded or not.
QdrantFlush_dropsFailed(ing, st, flush_ok) ==
    IF Len(ing.points) >= BatchSize
    THEN IF flush_ok
         THEN [ingest |-> [ing EXCEPT !.points = <<>>,
                              !.written = @ \cup {ing.points[k].id : k \in 1..Len(ing.points)},
                              !.last.writes = <<[ids |-> IdsOf(ing.points), ok |-> TRUE]>>],
               store |-> Upsert(st, ing.points)]
         ELSE [ingest |-> [ing EXCEPT !.points = <<>>,
                              !.last.writes = <<[ids |-> IdsOf(ing.points), ok |-> FALSE]>>],
               store |-> st]
    ELSE [ingest |-> ing, store |-> st]

\* `if len(points) >= 50:` upsert the pending points; they are cleared when
\* the upsert succeeded and kept when it raised.
QdrantFlush(ing, st, flush_ok) ==
    IF Len(ing.points) >= BatchSize
    THEN IF flush_ok
         THEN [ingest |-> [ing EXCEPT !.points = <<>>,
                              !.written = @ \cup {ing.points[k].id : k \in 1..Len(ing.points)},
                              !.last.writes = <<[ids |-> IdsOf(ing.points), ok |-> TRUE]>>],
               store |-> Upsert(st, ing.points)]
         ELSE [ingest |-> [ing EXCEPT
                              !.last.writes = <<[ids |-> IdsOf(ing.points), ok |-> FALSE]>>],
               store |-> st]
    ELSE [ingest |-> ing, store |-> st]

\* One iteration of the Qdrant loop on row.
QdrantRow(ing, st, row, outcome, chunks_ok, flush_ok) ==
    IF ~row.is_str
    THEN [ingest |-> Logged(ing, "not_str", <<>>), store |-> st]   \* continue
    ELSE IF outcome = "ok"
    THEN QdrantFlush(
             Processed([Logged(ing, "ok", <<>>) EXCEPT
                 !.point_id = @ + 1,
                 !.points = Append(@, [id |-> ing.point_id,
                                       payload |-> QdrantDocPayload(row)])]),
             st, flush_ok)
    ELSE IF outcome = "size_limit"
    THEN LET chunks == ChunkDocument(row.content, MaxChunkSize)
             oks    == OkIndexes(chunks_ok)
             pts    == [k \in 1..Len(oks) |->
                           [id |-> ing.point_id + k - 1,
                            payload |-> QdrantChunkPayload(row, chunks, oks[k])]]
         IN QdrantFlush(
                Processed([Logged(ing, "size_limit", chunks_ok) EXCEPT
                    !.point_id = @ + Len(oks),
                    !.points = @ \o pts]),
                st, flush_ok)
    ELSE [ingest |-> EmbedFailed(ing, outcome), store |-> st]     \* continue

\* Qdrant, after the loop: `if points:` the final upsert, whose exception is
\* logged.
QdrantFinish(ing, st, flush_ok) ==
    IF Len(ing.points) > 0
    THEN IF flush_ok
         THEN [ingest |-> [ing EXCEPT !.pc = "done",
                              !.written = @ \cup {ing.points[k].id : k \in 1..Len(ing.points)},
                              !.last = Step("finish", <<>>,
                                            <<[ids |-> IdsOf(ing.points), ok |-> TRUE]>>)],
               store |-> Upsert(st, ing.points)]
         ELSE [ingest |-> [ing EXCEPT !.pc = "done",
                              !.last = Step("finish", <<>>,
                                            <<[ids |-> IdsOf(ing.points), ok |-> FALSE]>>)],
               store |-> st]
    ELSE [ingest |-> [ing EXCEPT !.pc = "done", !.last = Step("finish", <<>>, <<>>)],
          store |-> st]

IngestConstructed(variant, docs) ==
    [variant |-> variant, docs |-> docs, pc |-> "idle", runs |-> 0, pos |-> 0,
     points |-> <<>>, point_id |-> 1, processed_count |-> 0, skipped |-> FALSE,
     found_vectors |-> FALSE, written |-> {}, last |-> Step("none", <<>>, <<>>)]

\* The chunks the split gives for the row at position pos + 1, when its
\* embedding hits the size limit.
ChunkAnswers(row, outcome) ==
    IF row.is_str /\ outcome = "size_limit"
    THEN [1..Len(ChunkDocument(row.content, MaxChunkSize)) -> BOOLEAN]
    ELSE {<<>>}

\* generate_collection is called: the code before the loop.
PineconeGenerateCollection ==
    /\ ingest.variant = "pinecone"
    /\ ingest.pc \in {"idle", "done"}
    /\ ingest.runs < MaxRuns
    /\ \E stats_ok \in BOOLEAN :
          LET r == PineconeStart(ingest, store, stats_ok)
          IN ingest' = r.ingest /\ store' = r.store
    /\ UNCHANGED <<search_call, search_result, chunk_call, concurrent, embed_call, parse_call, route_call>>

QdrantGenerateCollection ==
    /\ ingest.variant = "qdrant"
    /\ ingest.pc \in {"idle", "done"}
    /\ ingest.runs < MaxRuns
    /\ LET r == QdrantStart(ingest, store)
       IN ingest' = r.ingest /\ store' = r.store
    /\ UNCHANGED <<search_call, search_result, chunk_call, concurrent, embed_call, parse_call, route_call>>

\* One iteration of `for _, row in df_docs.iterrows()`, as far as the
\* embedding of the first chunk when the row falls back to chunking.
PineconeProcessRow ==
    /\ ingest.variant = "pinecone"
    /\ ingest.pc = "loop"
    /\ ingest.pos < Len(ingest.docs)
    /\ LET row == ingest.docs[ingest.pos + 1]
       IN \E outcome \in EmbedOutcomes :
             /\ (~row.is_str => outcome = "ok")
             /\ LET r == PineconeRow(ingest, store, row, outcome)
                IN ingest' = r.ingest /\ store' = r.store
    /\ UNCHANGED <<search_call, search_result, chunk_call, concurrent, embed_call, parse_call, route_call>>

\* The embedding client answers for the next chunk of the row, and the chunk
\* is written.
PineconeProcessChunk ==
    /\ ingest.variant = "pinecone"
    /\ ingest.pc = "chunks"
    /\ \E ok \in BOOLEAN :
          LET r == PineconeChunk(ingest, store, ok)
          IN ingest' = r.ingest /\ store' = r.store
    /\ UNCHANGED <<search_call, search_result, chunk_call, concurrent, embed_call, parse_call, route_call>>

\* One iteration of the loop of the Qdrant ingestor. Its chunk loop only
\* appends to points; the store is written once, by the batch upsert at the
\* end of the iteration.
QdrantProcessRow ==
    /\ ingest.variant = "qdrant"
    /\ ingest.pc = "loop"
    /\ ingest.pos < Len(ingest.docs)
    /\ LET row == ingest.docs[ingest.pos + 1]
       IN \E outcome \in EmbedOutcomes, flush_ok \in BOOLEAN :
             \E chunks_ok \in ChunkAnswers(row, outcome) :
                /\ (~row.is_str => outcome = "ok")
                /\ LET r == QdrantRow(ingest, store, row, outcome, chunks_ok, flush_ok)
                   IN ingest' = r.ingest /\ store' = r.store
    /\ UNCHANGED <<search_call, search_result, chunk_call, concurrent, embed_call, parse_call, route_call>>

\* The loop is over: the code after it, and the return.
PineconeFinish ==
    /\ ingest.variant = "pinecone"
    /\ ingest.pc = "loop"
    /\ ingest.pos = Len(ingest.docs)
    /\ ingest' = [ingest EXCEPT !.pc = "done", !.last = Step("finish", <<>>, <<>>)]
    /\ UNCHANGED <<store, search_call, search_result, chunk_call, concurrent, embed_call, parse_call, route_call>>

QdrantFinishRun ==
    /\ ingest.variant = "qdrant"
    /\ ingest.pc = "loop"
    /\ ingest.pos = Len(ingest.docs)
    /\ \E flush_ok \in BOOLEAN :
          LET r == QdrantFinish(ingest, store, flush_ok)
          IN ingest' = r.ingest /\ store' = r.store
    /\ UNCHANGED <<search_call, search_result, chunk_call, concurrent, embed_call, parse_call, route_call>>

NextIngest ==
    \/ PineconeGenerateCollection
    \/ QdrantGenerateCollection
    \/ PineconeProcessRow
    \/ PineconeProcessChunk
    \/ QdrantProcessRow
    \/ PineconeFinish
    \/ QdrantFinishRun

(***************************************************************************)
(* The state after construction, and the search operation.                 *)
(***************************************************************************)
Retrievers == {"pinecone", "qdrant"}

NoCall(retriever) ==
    [retriever |-> retriever, called |-> FALSE, top_k |-> 0, embedding_ok |-> TRUE,
     query_ok |-> TRUE, hits |-> <<>>, query_vector |-> <<>>, queried |-> FALSE,
     store_query |-> <<>>]

\* A retriever has been constructed; nothing has been asked of it.
\* The collection is empty and no ingestor runs.
InitSearch ==
    /\ search_call \in {NoCall(r) : r \in Retrievers}
    /\ search_result = Returned(<<>>)
    /\ store = <<>>
    /\ ingest = IngestConstructed("pinecone", <<>>)
    /\ chunk_call = NoChunkCall(<<>>, MaxChunkSize)
    /\ concurrent = NoConcurrentCalls
    /\ embed_call = NoEmbedCall
    /\ parse_call = NoParseCall
    /\ route_call = NoRouteCall

\* One call of the retriever's semantic_search(query, top_k): the embedding
\* client answers query_vector or fails, the store is asked with store_query
\* and answers the first search_limit hits of a ranking or fails (the store
\* is not asked when the embedding failed).
\* A retriever keeps nothing from one call to the next, so a behaviour
\* holds one call.
SemanticSearch(retriever) ==
    /\ search_call.retriever = retriever
    /\ ~search_call.called
    /\ \E top_k \in 1..MaxTopK, embedding_ok \in BOOLEAN, query_ok \in BOOLEAN,
          input \in SearchInputs :
        LET ranking == input.ranking
            hits == IF embedding_ok /\ query_ok
                    THEN Take(ranking, SearchLimit(top_k)) ELSE <<>>
            query_vector == IF embedding_ok THEN input.query_vector ELSE <<>>
            store_query ==
                IF ~embedding_ok THEN <<>>
                ELSE IF retriever = "pinecone" THEN PineconeStoreQuery(query_vector)
                ELSE QdrantStoreQuery(query_vector)
        IN /\ (~(embedding_ok /\ query_ok) => ranking = <<>>)
           /\ (~embedding_ok => query_ok /\ input.query_vector = PlainVector)
           /\ search_call' = [retriever |-> retriever, called |-> TRUE,
                              top_k |-> top_k, embedding_ok |-> embedding_ok,
                              query_ok |-> query_ok, hits |-> hits,
                              query_vector |-> query_vector,
                              queried |-> embedding_ok,
                              store_query |-> store_query]
           /\ search_result' =
                 IF retriever = "pinecone"
                 THEN PineconeSearchResult(embedding_ok, query_ok, hits, top_k)
                 ELSE QdrantSearchResult(embedding_ok, query_ok, hits, top_k)

PineconeSemanticSearch ==
    /\ SemanticSearch("pinecone")
    /\ UNCHANGED <<store, ingest, chunk_call, concurrent, embed_call, parse_call, route_call>>

QdrantSemanticSearch ==
    /\ SemanticSearch("qdrant")
    /\ UNCHANGED <<store, ingest, chunk_call, concurrent, embed_call, parse_call, route_call>>

NextSearch == PineconeSemanticSearch \/ QdrantSemanticSearch

SpecSearch == InitSearch /\ [][NextSearch]_vars

\* An ingestor and its df_docs; the collection is empty and no search has
\* been made.
InitIngest ==
    /\ store = <<>>
    /\ ingest \in {IngestConstructed(v, d) : v \in Variants, d \in DocFrames}
    /\ search_call = NoCall("pinecone")
    /\ search_result = Returned(<<>>)
    /\ chunk_call = NoChunkCall(<<>>, MaxChunkSize)
    /\ concurrent = NoConcurrentCalls
    /\ embed_call = NoEmbedCall
    /\ parse_call = NoParseCall
    /\ route_call = NoRouteCall

\* The behaviours of an ingestor over its df_docs.
SpecIngest == InitIngest /\ [][NextIngest]_vars

(***************************************************************************)
(* _chunk_document called on its own.                                      *)
(***************************************************************************)
\* The characters of the texts: letters, the full stop, the space and the
\* newline (". " ends a sentence, "\n\n" a paragraph).
Alphabet == {"a", "b", ".", " ", "\n"}

Texts == UNION {[1..n -> Alphabet] : n \in 0..MaxTextLen}

\* A text and a size limit; nothing else runs.
InitChunk ==
    /\ chunk_call \in {NoChunkCall(t, m) : t \in Texts, m \in 1..MaxChunkSize}
    /\ search_call = NoCall("pinecone")
    /\ search_result = Returned(<<>>)
    /\ store = <<>>
    /\ ingest = IngestConstructed("pinecone", <<>>)
    /\ concurrent = NoConcurrentCalls
    /\ embed_call = NoEmbedCall
    /\ parse_call = NoParseCall
    /\ route_call = NoRouteCall

\* chunks = _chunk_document(text, max_chunk_size)
ChunkDocumentCall ==
    /\ ~chunk_call.called
    /\ chunk_call' = [chunk_call EXCEPT
                         !.called = TRUE,
                         !.chunks = ChunkDocument(chunk_call.text, chunk_call.max_chunk_size)]
    /\ UNCHANGED <<search_call, search_result, store, ingest, concurrent, embed_call, parse_call, route_call>>

NextChunk == ChunkDocumentCall

SpecChunk == InitChunk /\ [][NextChunk]_vars

(***************************************************************************)
(* semantic_search calls running at the same time on one retriever.        *)
(*                                                                         *)
(* A call runs in four steps: the embedding of the query, the store query, *)
(* the two passes with the sort and the cut, and the entry loop.  Between  *)
(* two steps of a call any step of another call may run.  What a call      *)
(* keeps from one step to the next are its local variables, which live in  *)
(* the frame of the call; the retriever object holds the clients and the   *)
(* configuration, which semantic_search only reads.                        *)
(***************************************************************************)
CallIds == 1..MaxCalls

\* The collection the calls run against.
SampleCollection == [doc_1 |-> PineconeDocRecord(Row("a", ShortText))]

\* What a call is given: top_k, and the answers of its collaborators.
ConcurrentInput(top_k, embedding_ok, query_ok, ranking) ==
    [top_k |-> top_k, embedding_ok |-> embedding_ok, query_ok |-> query_ok,
     ranking |-> ranking]

ConcurrentRankings ==
    {<<>>,
     <<WholeHit("a", 2)>>,
     <<ChunkHit("a", 1, 2, 1), ChunkHit("a", 0, 2, 2)>>,
     <<WholeHit("b", 1), ChunkHit("a", 0, 2, 2)>>}

ConcurrentInputs ==
    {ConcurrentInput(k, TRUE, TRUE, r) : k \in {1, MaxTopK}, r \in ConcurrentRankings}
    \cup {ConcurrentInput(1, FALSE, TRUE, <<>>), ConcurrentInput(1, TRUE, FALSE, <<>>)}

\* The frame of a call that has not assigned its locals yet.
EmptyFrame == [search_limit |-> 0, hits |-> <<>>, unique_results |-> <<>>]

\* A slip: the locals are kept on the retriever object, one set for all calls.
FrameOf_shared(c) == 1

\* The frame that holds the local variables of call c: each call of a
\* function has its own.
FrameOf(c) == c

\* What a failing collaborator makes of the call: the Pinecone retriever
\* returns [], the Qdrant retriever lets the exception through.
FailureResult(retriever) ==
    IF retriever = "pinecone" THEN Returned(<<>>) ELSE Raised

InitConcurrent ==
    /\ concurrent \in
          {[retriever |-> r,
            calls |-> [c \in CallIds |-> [pc |-> "start", input |-> inputs[c],
                                          result |-> Returned(<<>>)]],
            frames |-> [f \in CallIds |-> EmptyFrame]] :
              r \in Retrievers, inputs \in [CallIds -> ConcurrentInputs]}
    /\ store = SampleCollection
    /\ search_call = NoCall("pinecone")
    /\ search_result = Returned(<<>>)
    /\ ingest = IngestConstructed("pinecone", <<>>)
    /\ chunk_call = NoChunkCall(<<>>, MaxChunkSize)
    /\ embed_call = NoEmbedCall
    /\ parse_call = NoParseCall
    /\ route_call = NoRouteCall

\* The call ends with result.
Finish(c, result) ==
    concurrent' = [concurrent EXCEPT !.calls[c].pc = "done", !.calls[c].result = result]

\* The call goes on to pc with its frame set to frame.
GoOn(c, pc, frame) ==
    concurrent' = [concurrent EXCEPT !.calls[c].pc = pc, !.frames[FrameOf(c)] = frame]

\* query_vector = embed_content(...); search_limit = top_k * 5
EmbedQuery(c) ==
    /\ concurrent.calls[c].pc = "start"
    /\ LET call == concurrent.calls[c]
       IN IF call.input.embedding_ok
          THEN GoOn(c, "embedded",
                    [concurrent.frames[FrameOf(c)] EXCEPT
                        !.search_limit = SearchLimit(call.input.top_k)])
          ELSE Finish(c, FailureResult(concurrent.retriever))
    /\ UNCHANGED <<search_call, search_result, store, ingest, chunk_call, embed_call, parse_call, route_call>>

\* results = index.query(top_k=search_limit) / client.search(limit=search_limit)
QueryStore(c) ==
    /\ concurrent.calls[c].pc = "embedded"
    /\ LET call == concurrent.calls[c]
           frame == concurrent.frames[FrameOf(c)]
       IN IF call.input.query_ok
          THEN GoOn(c, "queried",
                    [frame EXCEPT !.hits = Take(call.input.ranking, frame.search_limit)])
          ELSE Finish(c, FailureResult(concurrent.retriever))
    /\ UNCHANGED <<search_call, search_result, store, ingest, chunk_call, embed_call, parse_call, route_call>>

\* QdrantRetriever: `combined_hit = hits[0]` is the hit object of the store's
\* answer with the lowest chunk_index of its group (the first of them, the
\* sort being stable), and its payload and score are assigned: the hit at
\* its place in results becomes the combined hit. The hits of a group that
\* is skipped stay as they are.
QdrantResultsAfterMerge(results) ==
    LET st1 == FirstPass([parent_documents |-> {}, unique_results |-> <<>>,
                          chunked_docs |-> <<>>], results)
        combined == {g \in 1..Len(st1.chunked_docs) :
                        ~SkipGroup(st1.chunked_docs[g].key, st1.parent_documents)}
        InGroup(j, g) ==
            /\ DOMAIN results[j].payload # {}
            /\ Get(results[j].payload, "is_chunk", FALSE)
            /\ Get(results[j].payload, "parent_document", "") = st1.chunked_docs[g].key
        IsFirst(j, g) ==
            /\ InGroup(j, g)
            /\ \A i \in 1..Len(results) :
                  InGroup(i, g) =>
                     LET ki == Get(results[i].payload, "chunk_index", 0)
                         kj == Get(results[j].payload, "chunk_index", 0)
                     IN kj < ki \/ (kj = ki /\ j <= i)
    IN [j \in 1..Len(results) |->
           IF \E g \in combined : IsFirst(j, g)
           THEN LET g == CHOOSE g \in combined : IsFirst(j, g)
                IN CombineChunks(st1.chunked_docs[g].key, st1.chunked_docs[g].matches)
           ELSE results[j]]

\* the two passes, the sort and the cut to top_k; the Pinecone retriever
\* builds its combined candidates as new dicts and leaves results alone
MergeAndRank(c) ==
    /\ concurrent.calls[c].pc = "queried"
    /\ LET call == concurrent.calls[c]
           frame == concurrent.frames[FrameOf(c)]
       IN GoOn(c, "ranked",
               [frame EXCEPT
                   !.unique_results = RankedCandidates(frame.hits, call.input.top_k),
                   !.hits = IF concurrent.retriever = "qdrant"
                            THEN QdrantResultsAfterMerge(frame.hits) ELSE frame.hits])
    /\ UNCHANGED <<search_call, search_result, store, ingest, chunk_call, embed_call, parse_call, route_call>>

\* the entry loop and the return
BuildEntries(c) ==
    /\ concurrent.calls[c].pc = "ranked"
    /\ LET ranked == concurrent.frames[FrameOf(c)].unique_results
       IN IF concurrent.retriever = "pinecone"
          THEN Finish(c, Returned(SanitizeData([i \in 1..Len(ranked) |-> PineconeEntry(ranked[i])])))
          ELSE IF \E i \in 1..Len(ranked) : QdrantEntryRaises(ranked[i])
          THEN Finish(c, Raised)
          ELSE Finish(c, Returned([i \in 1..Len(ranked) |-> QdrantEntry(ranked[i])]))
    /\ UNCHANGED <<search_call, search_result, store, ingest, chunk_call, embed_call, parse_call, route_call>>

EmbedQueryStep == \E c \in CallIds : EmbedQuery(c)
QueryStoreStep == \E c \in CallIds : QueryStore(c)
MergeAndRankStep == \E c \in CallIds : MergeAndRank(c)
BuildEntriesStep == \E c \in CallIds : BuildEntries(c)

NextConcurrent ==
    \/ EmbedQueryStep
    \/ QueryStoreStep
    \/ MergeAndRankStep
    \/ BuildEntriesStep

SpecConcurrent == InitConcurrent /\ [][NextConcurrent]_vars

(***************************************************************************)
(* Properties of semantic_search.                                          *)
(***************************************************************************)
Called == search_call.called
Entries == search_result.entries
RawHits == search_call.hits

IsWholeHit(h) == DOMAIN h.payload # {} /\ ~Get(h.payload, "is_chunk", FALSE)
IsChunkHit(h) == DOMAIN h.payload # {} /\ Get(h.payload, "is_chunk", FALSE)
IsChunkOf(h, f) == IsChunkHit(h) /\ Get(h.payload, "parent_document", "") = f
WholeFileNames == {RawHits[i].payload.filename :
                      i \in {j \in 1..Len(RawHits) : IsWholeHit(RawHits[j])}}

\* an entry built from a combined chunk group carries the note
IsMergedEntry(e) == "note" \in DOMAIN e.metadata

\* piece occurs in text
Contains(text, piece) ==
    \E k \in 1..(Len(text) - Len(piece) + 1) :
        SubSeq(text, k, k + Len(piece) - 1) = piece

\* C1: semantic_search returns at most top_k Result Entries, for every
\* positive top_k and every list of raw hits.
C1_AtMostTopK ==
    Called => Len(Entries) <= search_call.top_k

\* C1's case: more documents were hit than top_k, and top_k entries came back.
C1_Witness ==
    /\ Called /\ ~search_result.raised
    /\ Cardinality(WholeFileNames) > search_call.top_k
    /\ Len(Entries) = search_call.top_k

\* C2: the returned list is in non-increasing score order, whole-document
\* entries and merged chunk entries ranked together.
C2_SortedByScore ==
    \A i \in 1..(Len(Entries) - 1) : Entries[i].score >= Entries[i + 1].score

\* C2's case: a merged entry, collected after a whole document, is returned
\* above it because its score is higher.
C2_Witness ==
    /\ Called /\ Len(Entries) = 2
    /\ IsMergedEntry(Entries[1]) /\ ~IsMergedEntry(Entries[2])
    /\ Entries[1].score > Entries[2].score
    /\ IsWholeHit(RawHits[1])

\* C3 as stated: whenever the embedding call or the store query fails,
\* semantic_search returns an empty list and raises nothing, in both
\* retrievers.
C3_NeverRaises ==
    (Called /\ ~(search_call.embedding_ok /\ search_call.query_ok))
        => (~search_result.raised /\ Entries = <<>>)

\* C5: when the raw hits hold a whole-document hit with filename F, no merged
\* chunk entry for F is returned, wherever F's chunk hits stand in the list.
C5_WholeDocumentWins ==
    \A i \in 1..Len(Entries) :
        IsMergedEntry(Entries[i]) => Entries[i].metadata.filename \notin WholeFileNames

\* C5's case: chunks of F arrive before and after the whole document F, and
\* the list returned has room left for a merged entry.
C5_Witness ==
    /\ Called /\ ~search_result.raised
    /\ Len(Entries) < search_call.top_k
    /\ \E f \in FileNames : \E i, j, k \in 1..Len(RawHits) :
          /\ i < j /\ j < k
          /\ IsChunkOf(RawHits[i], f) /\ IsChunkOf(RawHits[k], f)
          /\ IsWholeHit(RawHits[j]) /\ RawHits[j].payload.filename = f
          /\ \E n \in 1..Len(Entries) :
                ~IsMergedEntry(Entries[n]) /\ Entries[n].metadata.filename = f

\* the chunk hits of the entry's parent whose text the entry's text holds
ConstituentScores(e) ==
    {RawHits[i].score :
        i \in {j \in 1..Len(RawHits) :
                  /\ IsChunkOf(RawHits[j], e.metadata.filename)
                  /\ Contains(e.text, RawHits[j].payload.text)}}

\* C6: the score of every merged chunk entry is the maximum of the scores
\* of the chunk hits whose text it concatenates.
C6_MergedScoreIsMax ==
    \A i \in 1..Len(Entries) :
        IsMergedEntry(Entries[i]) =>
            /\ Entries[i].score \in ConstituentScores(Entries[i])
            /\ \A s \in ConstituentScores(Entries[i]) : s <= Entries[i].score

\* C6's case: a group of more than five chunk hits, the hit cut off scoring
\* higher than every hit kept.
C6_Witness ==
    /\ Called
    /\ \E i \in 1..Len(Entries) :
          /\ IsMergedEntry(Entries[i])
          /\ Cardinality({j \in 1..Len(RawHits) :
                            IsChunkOf(RawHits[j], Entries[i].metadata.filename)})
                > MaxChunksCombined
          /\ \E j \in 1..Len(RawHits) :
                /\ IsChunkOf(RawHits[j], Entries[i].metadata.filename)
                /\ RawHits[j].score > Entries[i].score

BookkeepingKeys == {"is_chunk", "chunk_index", "total_chunks", "parent_document",
                    "is_combined_chunks", "num_chunks_combined"}

\* C7 as stated: whatever keys the stored payload carries, no entry's
\* metadata holds one of the six bookkeeping keys.
C7_MetadataClean ==
    \A i \in 1..Len(Entries) : DOMAIN Entries[i].metadata \cap BookkeepingKeys = {}

(***************************************************************************)
(* Properties of generate_collection, under SpecIngest.                    *)
(***************************************************************************)
Running == ingest.pc = "loop"
Finished == ingest.pc = "done"
StoredRecords == {store[k] : k \in DOMAIN store}
PendingRecords == {ingest.points[i].payload : i \in 1..Len(ingest.points)}
IsChunkRecord(rec) == "is_chunk" \in DOMAIN rec /\ rec.is_chunk = TRUE
ChunkIds == {k \in DOMAIN store : IsChunkRecord(store[k])}
Failures == {"invalid_argument", "error"}

\* C4 as stated: every step of a call of generate_collection that found at
\* least one vector in the collection, its first step included, leaves the
\* collection as it is, in both ingestors.
C4_Idempotent == [][ingest'.found_vectors => store' = store]_vars

\* C8: a step of the loop in which the embedding of the document fails with
\* something other than the size limit changes neither the collection nor
\* the pending points, leaves the call inside its loop (nothing is raised)
\* at the next row; and a call that entered its loop returns only after the
\* last row of df_docs.
C8_BestEffort ==
    [][/\ (Running /\ ingest.pos < Len(ingest.docs)
              /\ ingest'.last.outcome \in Failures)
          => /\ store' = store
             /\ ingest'.points = ingest.points
             /\ ingest'.pc = "loop"
             /\ ingest'.pos = ingest.pos + 1
       /\ (ingest'.pc = "done" /\ ~ingest'.skipped)
          => ingest'.pos = Len(ingest'.docs)]_vars

\* C8's case: the embedding of a document has just failed with something
\* other than the size limit, and rows of df_docs remain.
C8_Witness ==
    /\ Running
    /\ ingest.last.outcome \in Failures
    /\ ingest.pos < Len(ingest.docs)

\* C9 as stated: after the chunking fallback of a row, each chunk whose
\* embedding succeeded has a record (stored, or pending in the batch) with
\* is_chunk true, the row's filename as parent_document, the number of
\* chunks as total_chunks, the chunk's text, and its 0-based position as
\* chunk_index, in both ingestors.
C9_ChunkRecords ==
    (Running /\ ingest.last.outcome = "size_limit") =>
        LET row    == ingest.docs[ingest.pos]
            chunks == ChunkDocument(row.content, MaxChunkSize)
        IN \A i \in 0..(Len(chunks) - 1) :
              ingest.last.chunks_ok[i + 1] =>
                 \E rec \in StoredRecords \cup PendingRecords :
                    /\ IsChunkRecord(rec)
                    /\ rec.parent_document = row.file_name
                    /\ rec.total_chunks = Len(chunks)
                    /\ rec.text = chunks[i + 1]
                    /\ rec.chunk_index = i

\* C10 as stated: when generate_collection has returned, the stored chunk
\* records of one parent_document carry each chunk_index of
\* 0 .. total_chunks - 1 exactly once, and no other chunk_index.
C10_ContiguousIndexes ==
    Finished =>
        \A k \in ChunkIds :
            LET siblings == {j \in ChunkIds :
                                store[j].parent_document = store[k].parent_document}
            IN /\ store[k].chunk_index \in 0..(store[k].total_chunks - 1)
               /\ \A c \in 0..(store[k].total_chunks - 1) :
                     Cardinality({j \in siblings : store[j].chunk_index = c}) = 1

\* The ids of the records the writes of a step put into the collection, one
\* per record written.
RecordIdsOf(writes) ==
    LET Ok(w) == w.ok
        RECURSIVE Flat(_)
        Flat(ws) == IF ws = <<>> THEN <<>> ELSE Head(ws).ids \o Flat(Tail(ws))
    IN Flat(SelectSeq(writes, Ok))

\* C11 as stated: a step of a call of generate_collection writes no record
\* under an id under which the call has already written a record, and no two
\* records of the step share an id.
C11_DistinctIds ==
    [][(ingest' # ingest /\ ingest'.runs = ingest.runs) =>
          LET ids == RecordIdsOf(ingest'.last.writes)
          IN \A i \in 1..Len(ids) :
                /\ ids[i] \notin ingest.written
                /\ \A j \in 1..Len(ids) : ids[j] = ids[i] => j = i]_vars

(***************************************************************************)
(* Properties of _chunk_document, under SpecChunk.                         *)
(***************************************************************************)
ChunkCalled == chunk_call.called
Chunks == chunk_call.chunks

\* the paragraphs of a text, and the sentences of a paragraph, as
\* _chunk_document takes them apart
ParagraphsOf(text) == Split(text, <<"\n", "\n">>)
SentencesOf(para) == Split(Replace(para, <<".", " ">>, <<".", "\n">>), <<"\n">>)

\* the sentences longer than max_size of the paragraphs longer than max_size
OversizeSentences(text, max_size) ==
    LET paras == ParagraphsOf(text)
        big   == {k \in 1..Len(paras) : Len(paras[k]) > max_size}
        SentenceSet(para) == {SentencesOf(para)[j] : j \in 1..Len(SentencesOf(para))}
    IN {s \in UNION {SentenceSet(paras[k]) : k \in big} : Len(s) > max_size}

IsWhitespace(c) == c \in {" ", "\n"}

\* the maximal pieces of a text free of whitespace, in order
Words(text) ==
    LET RECURSIVE W(_, _, _)
        W(k, acc, cur) ==
            IF k > Len(text) THEN (IF cur = <<>> THEN acc ELSE Append(acc, cur))
            ELSE IF IsWhitespace(text[k])
            THEN W(k + 1, IF cur = <<>> THEN acc ELSE Append(acc, cur), <<>>)
            ELSE W(k + 1, acc, Append(cur, text[k]))
    IN W(1, <<>>, <<>>)

\* C12: of a text longer than max_size, every chunk is at most max_size long
\* or is one sentence, itself longer than max_size, of a paragraph of the
\* text.
C12_ChunksBounded ==
    (ChunkCalled /\ Len(chunk_call.text) > chunk_call.max_chunk_size) =>
        \A i \in 1..Len(Chunks) :
            \/ Len(Chunks[i]) <= chunk_call.max_chunk_size
            \/ Chunks[i] \in OversizeSentences(chunk_call.text, chunk_call.max_chunk_size)

\* C12's case: a text split into several chunks, one of them a sentence
\* longer than max_size and one of them not.
C12_Witness ==
    /\ ChunkCalled
    /\ Len(Chunks) >= 2
    /\ \E i \in 1..Len(Chunks) : Len(Chunks[i]) > chunk_call.max_chunk_size
    /\ \E i \in 1..Len(Chunks) : Chunks[i] # <<>> /\ Len(Chunks[i]) <= chunk_call.max_chunk_size

\* C13: the chunks, put one after the other, hold the pieces of the text
\* between whitespace: each piece whole inside one chunk, once, in the order
\* of the text; only whitespace differs.
C13_PiecesKept ==
    ChunkCalled => Words(Join(Chunks, <<" ">>)) = Words(chunk_call.text)

\* C13's case: a text cut at a paragraph boundary and at a sentence boundary.
C13_Witness ==
    /\ ChunkCalled
    /\ Len(Chunks) >= 2
    /\ Find(chunk_call.text, <<"\n", "\n">>) > 0
    /\ Find(chunk_call.text, <<".", " ">>) > 0
    /\ Join(Chunks, <<"\n", "\n">>) # chunk_call.text

\* C14: a text no longer than max_size comes back as the only chunk,
\* unchanged.
C14_ShortTextWhole ==
    (ChunkCalled /\ Len(chunk_call.text) <= chunk_call.max_chunk_size) =>
        Chunks = <<chunk_call.text>>

\* C14's case: a text that fits although it holds a paragraph boundary.
C14_Witness ==
    /\ ChunkCalled
    /\ Len(chunk_call.text) <= chunk_call.max_chunk_size
    /\ Find(chunk_call.text, <<"\n", "\n">>) > 0

(***************************************************************************)
(* More properties of semantic_search, under SpecSearch.                   *)
(***************************************************************************)
\* C15 as stated: the vector handed to the store query is as long as the
\* query embedding, holds 0.0 where the embedding holds NaN or an infinity
\* and the embedding's value everywhere else, in both retrievers.
C15_FiniteStoreQuery ==
    (Called /\ search_call.queried) =>
        /\ Len(search_call.store_query) = Len(search_call.query_vector)
        /\ \A i \in 1..Len(search_call.query_vector) :
              search_call.store_query[i] =
                 IF search_call.query_vector[i] \in NonFinite
                 THEN "0.0" ELSE search_call.query_vector[i]

(***************************************************************************)
(* Properties of the chunk groups and their merged entries, under          *)
(* SpecSearch.                                                             *)
(***************************************************************************)
\* the candidates before the sort and the cut to top_k
Candidates ==
    LET st1 == FirstPass([parent_documents |-> {}, unique_results |-> <<>>,
                          chunked_docs |-> <<>>], RawHits)
    IN SecondPass(st1, st1.chunked_docs).unique_results

IsMergedCandidate(c) == "is_combined_chunks" \in DOMAIN c.payload

\* the parent documents with a chunk hit and no whole-document hit
ChunkOnlyParents ==
    {f \in {Get(RawHits[i].payload, "parent_document", "") :
               i \in {j \in 1..Len(RawHits) : IsChunkHit(RawHits[j])}} :
        f \notin WholeFileNames}

\* the positions of the chunk hits of parent f
ChunkHitsOf(f) == {j \in 1..Len(RawHits) : IsChunkOf(RawHits[j], f)}

Separator == <<"\n", "\n">>

\* the number of chunk texts in a merged text: the chunk texts of the hit
\* families hold no line break, so each separator joins two of them
NumTexts(text) ==
    1 + Cardinality({k \in 1..(Len(text) - 1) : SubSeq(text, k, k + 1) = Separator})

\* C17: for every parent with n >= 1 chunk hits and no whole-document hit
\* the candidates hold exactly one merged candidate, and every entry
\* returned for it carries the note with the number of chunk texts joined in
\* its text (n when n <= 5) and neither is_combined_chunks nor
\* num_chunks_combined.
C17_OneMergedEntryWithNote ==
    \A f \in ChunkOnlyParents :
        /\ LET cands == Candidates
           IN Cardinality({i \in 1..Len(cands) :
                              /\ IsMergedCandidate(cands[i])
                              /\ cands[i].payload.filename = f}) = 1
        /\ \A i \in 1..Len(Entries) :
              Get(Entries[i].metadata, "filename", "") = f =>
                 /\ IsMergedEntry(Entries[i])
                 /\ Entries[i].metadata.note = NoteOf(NumTexts(Entries[i].text))
                 /\ (Cardinality(ChunkHitsOf(f)) <= MaxChunksCombined
                        => NumTexts(Entries[i].text) = Cardinality(ChunkHitsOf(f)))
                 /\ {"is_combined_chunks", "num_chunks_combined"}
                        \cap DOMAIN Entries[i].metadata = {}

\* C17's case: three chunk hits of one parent, no whole document of that
\* name, and the merged entry is returned with the note of 3 parts.
C17_Witness ==
    /\ Called /\ ~search_result.raised
    /\ \E f \in ChunkOnlyParents :
          /\ Cardinality(ChunkHitsOf(f)) = 3
          /\ \E i \in 1..Len(Entries) :
                /\ Entries[i].metadata.filename = f
                /\ Entries[i].metadata.note = NoteOf(3)

ChunkIndexOf(j) == Get(RawHits[j].payload, "chunk_index", 0)

\* the positions S of raw hits in ascending chunk_index order, hits of equal
\* index in the order the store returned them
RECURSIVE InIndexOrder(_)
InIndexOrder(S) ==
    IF S = {} THEN <<>>
    ELSE LET j == CHOOSE x \in S :
                      \A y \in S : \/ ChunkIndexOf(x) < ChunkIndexOf(y)
                                   \/ ChunkIndexOf(x) = ChunkIndexOf(y) /\ x <= y
         IN <<j>> \o InIndexOrder(S \ {j})

\* the chunk hits of parent f a merged entry is built from
Retained(f) == Take(InIndexOrder(ChunkHitsOf(f)), MaxChunksCombined)

\* C18: a merged entry is built from the chunk hits of its parent with the
\* smallest chunk_index values, five of them when the group has more than
\* five, whatever their scores, and its text is their texts joined with a
\* blank line in ascending chunk_index order.
C18_FirstFiveInIndexOrder ==
    \A f \in ChunkOnlyParents : \A i \in 1..Len(Entries) :
        Get(Entries[i].metadata, "filename", "") = f =>
            LET kept == Retained(f)
                keptSet == {kept[k] : k \in 1..Len(kept)}
            IN /\ Len(kept) = IF Cardinality(ChunkHitsOf(f)) > MaxChunksCombined
                              THEN MaxChunksCombined ELSE Cardinality(ChunkHitsOf(f))
               /\ \A x \in keptSet : \A y \in ChunkHitsOf(f) \ keptSet :
                     ChunkIndexOf(x) <= ChunkIndexOf(y)
               /\ \A k \in 1..(Len(kept) - 1) :
                     ChunkIndexOf(kept[k]) <= ChunkIndexOf(kept[k + 1])
               /\ Entries[i].text =
                     Join([k \in 1..Len(kept) |-> RawHits[kept[k]].payload.text],
                          Separator)

\* C18's case: more than five chunk hits of one parent, returned out of
\* index order, a hit that is cut off scoring higher than a hit that is
\* kept, and the merged entry is returned.
C18_Witness ==
    /\ Called /\ ~search_result.raised
    /\ \E f \in ChunkOnlyParents :
          /\ Cardinality(ChunkHitsOf(f)) > MaxChunksCombined
          /\ \E x, y \in ChunkHitsOf(f) :
                /\ x < y /\ ChunkIndexOf(x) > ChunkIndexOf(y)
          /\ \E x, y \in ChunkHitsOf(f) :
                /\ ChunkIndexOf(x) < MaxChunksCombined
                /\ ChunkIndexOf(y) >= MaxChunksCombined
                /\ RawHits[y].score > RawHits[x].score
          /\ \E i \in 1..Len(Entries) :
                /\ Entries[i].metadata.filename = f
                /\ NumTexts(Entries[i].text) = MaxChunksCombined

\* the state of the first pass after the first j raw hits
FirstPassAfter(j) ==
    FirstPass([parent_documents |-> {}, unique_results |-> <<>>,
               chunked_docs |-> <<>>], Take(RawHits, j))

\* the raw hit at j is the first whole-document hit of its filename
IsFirstOfFileName(j) ==
    /\ IsWholeHit(RawHits[j])
    /\ ~\E i \in 1..(j - 1) :
          /\ IsWholeHit(RawHits[i])
          /\ Get(RawHits[i].payload, "filename", "") = Get(RawHits[j].payload, "filename", "")

\* the groups other than the group of key k
OtherGroups(chunked_docs, k) ==
    {chunked_docs[g] : g \in {x \in 1..Len(chunked_docs) : chunked_docs[x].key # k}}

\* C19: in the first pass a whole-document hit becomes a candidate exactly
\* when it is the first whole-document hit of its filename in the order the
\* store returned, and a chunk hit is appended to the group of its
\* parent_document and to no other; a whole-document entry returned is the
\* first hit of its filename.
C19_FirstSeenWins ==
    /\ \A j \in 1..Len(RawHits) :
          LET before == FirstPassAfter(j - 1)
              after  == FirstPassAfter(j)
              h      == RawHits[j]
          IN /\ IsWholeHit(h) =>
                   after.unique_results =
                      IF IsFirstOfFileName(j) THEN Append(before.unique_results, h)
                      ELSE before.unique_results
             /\ IsChunkHit(h) =>
                   LET parent == Get(h.payload, "parent_document", "")
                       group == {g \in 1..Len(after.chunked_docs) :
                                    after.chunked_docs[g].key = parent}
                       was == {g \in 1..Len(before.chunked_docs) :
                                    before.chunked_docs[g].key = parent}
                   IN /\ after.unique_results = before.unique_results
                      /\ Cardinality(group) = 1
                      /\ \A g \in group :
                            after.chunked_docs[g].matches =
                               IF was = {} THEN <<h>>
                               ELSE Append(before.chunked_docs[CHOOSE w \in was : TRUE].matches, h)
                      /\ OtherGroups(after.chunked_docs, parent)
                            = OtherGroups(before.chunked_docs, parent)
    /\ \A i \in 1..Len(Entries) :
          (~IsMergedEntry(Entries[i]) /\ "filename" \in DOMAIN Entries[i].metadata) =>
             \E j \in 1..Len(RawHits) :
                /\ IsFirstOfFileName(j)
                /\ RawHits[j].payload.filename = Entries[i].metadata.filename
                /\ RawHits[j].score = Entries[i].score
    /\ LET groups == FirstPassAfter(Len(RawHits)).chunked_docs
       IN \A f \in ChunkOnlyParents :
             \E g \in 1..Len(groups) :
                LET IsOfF(h) == IsChunkOf(h, f)
                IN groups[g].key = f /\ groups[g].matches = SelectSeq(RawHits, IsOfF)

\* C19's case: two whole-document hits of one filename, the later one with
\* the higher score, and a chunk hit; the entry returned for the filename
\* has the score of the earlier hit.
C19_Witness ==
    /\ Called /\ ~search_result.raised
    /\ \E i, j, k \in 1..Len(RawHits) :
          /\ i < j
          /\ IsFirstOfFileName(i) /\ IsWholeHit(RawHits[j])
          /\ RawHits[i].payload.filename = RawHits[j].payload.filename
          /\ RawHits[j].score > RawHits[i].score
          /\ IsChunkHit(RawHits[k])
          /\ \E n \in 1..Len(Entries) :
                /\ Entries[n].metadata.filename = RawHits[i].payload.filename
                /\ Entries[n].score = RawHits[i].score

\* C20: no two Result Entries returned carry the same filename in their
\* metadata, whole-document entries and merged entries alike.
C20_OneEntryPerFileName ==
    \A i, j \in 1..Len(Entries) :
        (/\ i < j
         /\ "filename" \in DOMAIN Entries[i].metadata
         /\ "filename" \in DOMAIN Entries[j].metadata)
            => Entries[i].metadata.filename # Entries[j].metadata.filename

\* C20's case: the raw hits hold two hits of one document, and more than
\* one entry is returned.
C20_Witness ==
    /\ Called /\ ~search_result.raised
    /\ Len(Entries) > 1
    /\ \E i, j \in 1..Len(RawHits) :
          /\ i < j
          /\ \E f \in FileNames :
                /\ IsChunkOf(RawHits[i], f) \/ (IsWholeHit(RawHits[i]) /\ RawHits[i].payload.filename = f)
                /\ IsChunkOf(RawHits[j], f) \/ (IsWholeHit(RawHits[j]) /\ RawHits[j].payload.filename = f)

(***************************************************************************)
(* Properties of semantic_search calls running at the same time, under     *)
(* SpecConcurrent.                                                         *)
(***************************************************************************)
\* what the call with this input returns when it runs alone
AloneResult(retriever, input) ==
    LET hits == Take(input.ranking, SearchLimit(input.top_k))
    IN IF retriever = "pinecone"
       THEN PineconeSearchResult(input.embedding_ok, input.query_ok, hits, input.top_k)
       ELSE QdrantSearchResult(input.embedding_ok, input.query_ok, hits, input.top_k)

\* C16: however the steps of the calls interleave, the collection stays as
\* it was and every call that has ended has the result it has when it runs
\* alone.
C16_CallsIsolated ==
    /\ store = SampleCollection
    /\ \A c \in DOMAIN concurrent.calls :
          concurrent.calls[c].pc = "done" =>
             concurrent.calls[c].result =
                AloneResult(concurrent.retriever, concurrent.calls[c].input)

\* C16's case: a call has ended with entries after another call, whose
\* store answer is a different one, ran its store query in between and is
\* still in flight.
C16_Witness ==
    \E c, d \in DOMAIN concurrent.calls :
        /\ c # d
        /\ concurrent.calls[c].pc = "done"
        /\ concurrent.calls[c].result.entries # <<>>
        /\ concurrent.calls[d].pc \in {"queried", "ranked"}
        /\ concurrent.frames[FrameOf(d)].hits # concurrent.frames[FrameOf(c)].hits

(***************************************************************************)
(* The metadata parser of generate_collection: the attribute string of a   *)
(* row (meta_data) is split into parts and each part into key and value.   *)
(***************************************************************************)
Http == <<"h", "t", "t", "p">>

\* Whitespace of str.strip() that has no escape in a TLA+ string, written as
\* the character itself between the quotes: the vertical tab (U+000B), the
\* file, group, record and unit separators (U+001C to U+001F), the next-line
\* control (U+0085) and the no-break space (U+00A0).
VerticalTab == ""
FileSeparator == ""
GroupSeparator == ""
RecordSeparator == ""
UnitSeparator == ""
NextLine == ""
NoBreakSpace == " "

\* the characters str.strip() takes for whitespace, up to U+00FF (the
\* seventeen separators beyond U+00FF, such as U+2028, are whitespace too,
\* and cannot be written in a string of the module)
StripWhitespace ==
    {" ", "\t", "\n", "\r", "\f", VerticalTab, FileSeparator, GroupSeparator,
     RecordSeparator, UnitSeparator, NextLine, NoBreakSpace}

\* str.strip(): the text without its leading and trailing whitespace
Strip(text) ==
    LET solid == {i \in 1..Len(text) : text[i] \notin StripWhitespace}
    IN IF solid = {} THEN <<>>
       ELSE SubSeq(text, CHOOSE i \in solid : \A j \in solid : i <= j,
                         CHOOSE i \in solid : \A j \in solid : j <= i)

\* One iteration of `for char in metadata_str`, on parts, current_part and
\* in_url.
ParseChar(st, char) ==
    IF char = "," /\ ~st.in_url
    THEN [st EXCEPT !.parts = Append(@, Strip(st.current_part)), !.current_part = <<>>]
    ELSE IF char = ":" /\ Find(st.current_part, Http) # 0
    THEN [st EXCEPT !.in_url = TRUE, !.current_part = Append(@, char)]
    ELSE IF /\ char = " " /\ st.in_url /\ Len(st.current_part) > 0
            /\ st.current_part[Len(st.current_part)] = ","
    THEN [st EXCEPT !.in_url = FALSE, !.current_part = Append(@, char)]
    ELSE [st EXCEPT !.current_part = Append(@, char)]

\* the loop over the characters lo..hi of text, from the loop state st (the
\* range is halved, and the state after the first half is computed before
\* the second half starts, to keep the evaluation shallow)
RECURSIVE ParseChars(_, _, _, _)
ParseChars(st, text, lo, hi) ==
    IF lo > hi THEN st
    ELSE IF lo = hi THEN ParseChar(st, text[lo])
    ELSE LET mid == (lo + hi) \div 2
             half == ParseChars(st, text, lo, mid)
         IN IF half.in_url \in BOOLEAN
            THEN ParseChars(half, text, mid + 1, hi) ELSE st

\* the parts of the attribute string
PartsOf(metadata_str) ==
    LET st == ParseChars([parts |-> <<>>, current_part |-> <<>>, in_url |-> FALSE],
                         metadata_str, 1, Len(metadata_str))
        parts == IF Len(st.current_part) > 0
                 THEN Append(st.parts, Strip(st.current_part)) ELSE st.parts
    IN IF Len(parts) = 0 THEN Split(metadata_str, <<",">>) ELSE parts

\* `for part in parts`: key, value = part.split(':', 1), both stripped
RECURSIVE PartsToMetadata(_, _)
PartsToMetadata(metadata, parts) ==
    IF Len(parts) = 0 THEN metadata
    ELSE LET part == parts[1]
             k == Find(part, <<":">>)
         IN PartsToMetadata(
                IF k = 0 THEN metadata
                ELSE Put(metadata, Strip(SubSeq(part, 1, k - 1)),
                         Strip(SubSeq(part, k + 1, Len(part)))),
                Tail(parts))

\* the metadata dict of a row whose meta_data is metadata_str, before
\* last_updated is added
ParseMetadata(metadata_str) ==
    IF Len(metadata_str) = 0 THEN <<>>
    ELSE PartsToMetadata(<<>>, PartsOf(metadata_str))

\* An attribute "key: value", and a word without colon.
Attr(key, value) == [text |-> key \o <<":", " ">> \o value, key |-> key, value |-> value]
Word(w) == [text |-> w, key |-> <<>>, value |-> <<>>]

\* An attribute with whitespace before the key (lead), after the colon
\* (mid) and after the value (trail).
Padded(lead, key, mid, value, trail) ==
    [text |-> lead \o key \o <<":">> \o mid \o value \o trail,
     key |-> key, value |-> value]

Url == Http \o <<":", "/", "/", "x">>
UrlWithComma == Url \o <<",", "y">>

AttrUniverse ==
    {Attr(<<"k">>, <<"v">>),
     Padded(<<"\t", VerticalTab>>, <<"j">>, <<"\r", FileSeparator>>, <<"w">>,
            <<GroupSeparator, "\n">>),
     Padded(<<RecordSeparator, "\f">>, <<"i">>, <<UnitSeparator>>, <<"x">>,
            <<NextLine, NoBreakSpace>>),
     Attr(<<"u">>, Url), Attr(<<"u">>, UrlWithComma),
     Attr(<<"t">>, <<"1", ":", "2">>), Word(<<"n">>)}

AttrLists == UNION {[1..n -> AttrUniverse] : n \in 0..MaxAttrs}

\* the attribute string of a list of attributes
AttrString(attrs, sep) == Join([i \in 1..Len(attrs) |-> attrs[i].text], sep)

InitParse ==
    /\ parse_call = NoParseCall
    /\ search_call = NoCall("pinecone")
    /\ search_result = Returned(<<>>)
    /\ store = <<>>
    /\ ingest = IngestConstructed("pinecone", <<>>)
    /\ chunk_call = NoChunkCall(<<>>, MaxChunkSize)
    /\ concurrent = NoConcurrentCalls
    /\ embed_call = NoEmbedCall
    /\ route_call = NoRouteCall

\* The parser runs on the attribute string of a row.
ParseMetadataCall ==
    /\ ~parse_call.called
    /\ \E attrs \in AttrLists, sep \in {<<",", " ">>, <<",">>} :
          LET metadata_str == AttrString(attrs, sep)
          IN parse_call' = [called |-> TRUE, attrs |-> attrs, sep |-> sep,
                            metadata_str |-> metadata_str,
                            metadata |-> ParseMetadata(metadata_str)]
    /\ UNCHANGED <<search_call, search_result, store, ingest, chunk_call, concurrent,
                   embed_call, route_call>>

NextParse == ParseMetadataCall

SpecParse == InitParse /\ [][NextParse]_vars

(***************************************************************************)
(* GeminiEmbedding.embed_content: the call of the embedding backend and    *)
(* what the client makes of its answer.                                    *)
(***************************************************************************)
\* the values a list of the backend's answer can hold: a number, a NaN, and
\* something that is no number
EmbedValues == {"1.5", "nan", "text"}

\* what an attribute or a dict value can be: a list, None, or something
\* that is neither a list nor iterable
ListValue(l) == [tag |-> "list", list |-> l]
NoneValue == [tag |-> "None", list |-> <<>>]
NotIterable == [tag |-> "not_iterable", list |-> <<>>]

EmbedLists == UNION {[1..n -> EmbedValues] : n \in 0..(EmbeddingDim + 1)}

\* What _embed_content can do: raise (the size-limit InvalidArgument,
\* another InvalidArgument, any other exception) or return an object whose
\* `values` attribute is a list, None or something not iterable, an object
\* whose `values` is callable, a dict, or an object without `values`.
ApiAnswers ==
    {[kind |-> "raises", error |-> e] : e \in {"size_limit", "invalid_argument", "error"}}
    \cup {[kind |-> "object", values |-> v] : v \in {ListValue(l) : l \in EmbedLists} \cup {NoneValue, NotIterable}}
    \cup {[kind |-> "callable", outcome |-> o, list |-> l] :
             o \in {"raises", "not_iterable", "inner", "flat"},
             l \in {<<>>, <<"1.5", "nan">>, <<"1.5", "1.5", "1.5">>}}
    \cup {[kind |-> "dict", items |-> d] :
             d \in {<<[key |-> k, value |-> l]>> :
                       k \in {"values", "embedding", "other"},
                       l \in {NotIterable, ListValue(<<"1.5", "nan">>),
                               ListValue(<<"1.5", "1.5", "1.5">>)}}
                   \cup {<<[key |-> "other", value |-> NotIterable], [key |-> k, value |-> l]>> :
                            k \in {"values", "more"},
                            l \in {NotIterable, ListValue(<<"1.5">>),
                                    ListValue(<<"1.5", "nan", "text">>)}}}
    \cup {[kind |-> "no_values"]}

\* [0.0] * 768
ZeroVector == [i \in 1..EmbeddingDim |-> "0.0"]

IsList(v) == v.tag = "list"

\* the loop over embedding_values: a finite number is kept, anything else
\* becomes 0.0
CleanValues(values) ==
    [i \in 1..Len(values) |-> IF values[i] \in {"1.5", "0.0"} THEN values[i] ELSE "0.0"]

\* from `if embedding_values is None` to `return clean_values`
FinishEmbedding(embedding_values) ==
    IF ~IsList(embedding_values) THEN ZeroVector
    ELSE IF /\ Len(embedding_values.list) # EmbeddingDim
            /\ Len(embedding_values.list) < MinVectorLen
    THEN ZeroVector
    ELSE CleanValues(embedding_values.list)

DictHas(items, k) == \E i \in 1..Len(items) : items[i].key = k
DictGet(items, k) == items[CHOOSE i \in 1..Len(items) : items[i].key = k].value

\* the dict branch: "values", "embedding", the only key, or the first list
\* longer than 100
DictEmbedding(items) ==
    IF DictHas(items, "values") /\ IsList(DictGet(items, "values"))
    THEN FinishEmbedding(DictGet(items, "values"))
    ELSE IF DictHas(items, "embedding") /\ IsList(DictGet(items, "embedding"))
    THEN FinishEmbedding(DictGet(items, "embedding"))
    ELSE IF Len(items) = 1 /\ IsList(items[1].value)
    THEN FinishEmbedding(items[1].value)
    ELSE LET likely == {i \in 1..Len(items) :
                           IsList(items[i].value) /\ Len(items[i].value.list) > MinVectorLen}
         IN IF likely = {} THEN ZeroVector
            ELSE FinishEmbedding(items[CHOOSE i \in likely : \A j \in likely : i <= j].value)

\* the branch of an object whose `values` is callable
CallableEmbedding(outcome, list) ==
    IF outcome \in {"raises", "not_iterable"} THEN ZeroVector
    ELSE FinishEmbedding(ListValue(list))    \* the list, or the one list inside it

\* embed_content as its caller sees it: every exception of the backend call
\* is caught and a vector of zeros is returned.
EmbedOutcome(api) ==
    [raised |-> "no",
     vector |-> IF api.kind = "raises" THEN ZeroVector
                ELSE IF api.kind = "no_values" THEN ZeroVector
                ELSE IF api.kind = "dict" THEN DictEmbedding(api.items)
                ELSE IF api.kind = "callable" THEN CallableEmbedding(api.outcome, api.list)
                ELSE FinishEmbedding(api.values)]

InitEmbed ==
    /\ embed_call = NoEmbedCall
    /\ search_call = NoCall("pinecone")
    /\ search_result = Returned(<<>>)
    /\ store = <<>>
    /\ ingest = IngestConstructed("pinecone", <<>>)
    /\ chunk_call = NoChunkCall(<<>>, MaxChunkSize)
    /\ concurrent = NoConcurrentCalls
    /\ parse_call = NoParseCall
    /\ route_call = NoRouteCall

\* One call of GeminiEmbedding.embed_content, the backend answering api.
EmbedContentCall ==
    /\ ~embed_call.called
    /\ \E api \in ApiAnswers :
          LET out == EmbedOutcome(api)
          IN embed_call' = [called |-> TRUE, api |-> api,
                            raised |-> out.raised, vector |-> out.vector]
    /\ UNCHANGED <<search_call, search_result, store, ingest, chunk_call, concurrent,
                   parse_call, route_call>>

NextEmbed == EmbedContentCall

SpecEmbed == InitEmbed /\ [][NextEmbed]_vars

(***************************************************************************)
(* Properties of the batch writes of the Qdrant ingestor, under            *)
(* SpecIngest.                                                             *)
(***************************************************************************)
IsQdrant == ingest.variant = "qdrant"
PendingIds == {ingest.points[i].id : i \in 1..Len(ingest.points)}

\* the ids of the points the call has built so far
BuiltIds == 1..(ingest.point_id - 1)

\* the ids the writes of the last step carried
AttemptedIds ==
    UNION {{ingest.last.writes[w].ids[i] : i \in 1..Len(ingest.last.writes[w].ids)} :
              w \in 1..Len(ingest.last.writes)}

\* C21: in the Qdrant ingestor no point is lost to a failed write: while
\* the loop runs every point built is pending or written, the points of a
\* write that has just failed are all still pending, every write carries all
\* the pending points, and when the call has returned every point built was
\* written or was in the final write.
C21_FailedBatchRetained ==
    IsQdrant =>
        /\ Running =>
              /\ BuiltIds = PendingIds \cup ingest.written
              /\ \A w \in 1..Len(ingest.last.writes) :
                    ~ingest.last.writes[w].ok =>
                       ingest.last.writes[w].ids = IdsOf(ingest.points)
        /\ Finished =>
              /\ BuiltIds \subseteq ingest.written \cup AttemptedIds
              /\ \A w \in 1..Len(ingest.last.writes) :
                    ingest.last.writes[w].ids = IdsOf(ingest.points)

\* C21's case: the call has returned and its final write, which succeeded,
\* carried at least a full batch: the batch write before it had failed and
\* its points were kept.
C21_Witness ==
    /\ IsQdrant /\ Finished
    /\ Len(ingest.last.writes) = 1
    /\ ingest.last.writes[1].ok
    /\ Len(ingest.last.writes[1].ids) >= BatchSize
    /\ AttemptedIds \subseteq DOMAIN store

\* C22 as stated: no write the Qdrant ingestor issues carries more points
\* than the batch size, whatever the documents, their chunk counts and the
\* earlier write failures.
C22_BatchBounded ==
    IsQdrant =>
        \A w \in 1..Len(ingest.last.writes) :
            Len(ingest.last.writes[w].ids) <= BatchSize

(***************************************************************************)
(* Properties of the chunking fallback of generate_collection, under       *)
(* SpecIngest.                                                             *)
(***************************************************************************)
\* the row the last step of the loop worked on, and its chunks
LastRow == ingest.docs[ingest.pos]
LastChunks == ChunkDocument(LastRow.content, MaxChunkSize)

\* chunk i (0-based) of the last row has a record, stored or pending
ChunkRecorded(i) ==
    \E rec \in StoredRecords \cup PendingRecords :
        /\ IsChunkRecord(rec)
        /\ rec.parent_document = LastRow.file_name
        /\ rec.text = LastChunks[i + 1]
        /\ rec.filename = PartName(LastRow.file_name, i, Len(LastChunks))

\* C23: in the chunking fallback every chunk is attempted, each chunk whose
\* embedding and write succeeded is recorded whatever happened to the chunks
\* before it, and the loop goes on to the next row.
C23_ChunkFailureSkipsOnlyChunk ==
    (Running /\ ingest.last.outcome = "size_limit") =>
        /\ Len(ingest.last.chunks_ok) = Len(LastChunks)
        /\ \A i \in 0..(Len(LastChunks) - 1) :
              ingest.last.chunks_ok[i + 1] => ChunkRecorded(i)
        /\ ingest.processed_count > 0

\* C23's case: the first chunk of a row failed, a later chunk of the row
\* succeeded and is recorded, and rows remain.
C23_Witness ==
    /\ Running /\ ingest.last.outcome = "size_limit"
    /\ Len(ingest.last.chunks_ok) > 1
    /\ ~ingest.last.chunks_ok[1]
    /\ \E i \in 1..(Len(LastChunks) - 1) :
          ingest.last.chunks_ok[i + 1] /\ ChunkRecorded(i)
    /\ ingest.pos < Len(ingest.docs)

\* C24 as stated: a row whose chunking fallback has just put a record with
\* is_chunk = true into the collection (or the pending batch) has a text
\* longer than max_chunk_size.
C24_ChunksOnlyOversized ==
    (/\ Running /\ ingest.last.outcome = "size_limit"
     /\ \E i \in 0..(Len(LastChunks) - 1) :
           ingest.last.chunks_ok[i + 1] /\ ChunkRecorded(i))
        => Len(LastRow.content) > MaxChunkSize

(***************************************************************************)
(* Properties of GeminiEmbedding.embed_content, under SpecEmbed.           *)
(***************************************************************************)
\* C25 as stated: when the backend rejects the input as too large,
\* embed_content returns no vector and fails with the payload-too-large
\* condition.
C25_SizeLimitSignalled ==
    (/\ embed_call.called
     /\ embed_call.api.kind = "raises"
     /\ embed_call.api.error = "size_limit")
        => (embed_call.raised = "size_limit" /\ embed_call.vector = <<>>)

(***************************************************************************)
(* Properties of the metadata parser, under SpecParse.                     *)
(***************************************************************************)
IsUrlAttr(a) == Find(a.value, Http) = 1

\* the attribute string is made of 'key: value' attributes with distinct
\* keys, separated by ', ', one of them with an http URL as its value
IsUrlAttrString ==
    /\ parse_call.called
    /\ parse_call.sep = <<",", " ">>
    /\ \A i \in 1..Len(parse_call.attrs) : Len(parse_call.attrs[i].key) > 0
    /\ \A i, j \in 1..Len(parse_call.attrs) :
          i # j => parse_call.attrs[i].key # parse_call.attrs[j].key
    /\ Cardinality({i \in 1..Len(parse_call.attrs) : IsUrlAttr(parse_call.attrs[i])}) = 1

\* C26 as stated: of such an attribute string every attribute is parsed
\* into its own key -> value pair, the URL value whole and the attributes
\* after the URL attribute as keys of their own.
C26_UrlCommasTolerated ==
    IsUrlAttrString =>
        /\ DOMAIN parse_call.metadata =
              {parse_call.attrs[i].key : i \in 1..Len(parse_call.attrs)}
        /\ \A i \in 1..Len(parse_call.attrs) :
              parse_call.metadata[parse_call.attrs[i].key] = parse_call.attrs[i].value

(***************************************************************************)
(* Properties of the score and the truncation of semantic_search, under    *)
(* SpecSearch.                                                             *)
(***************************************************************************)
\* C27 as stated: the score of every merged entry is at least the score of
\* every chunk hit of its parent document among the raw hits, also when the
\* parent has more than five chunk hits.
C27_ScoreOverWholeGroup ==
    \A i \in 1..Len(Entries) :
        IsMergedEntry(Entries[i]) =>
            \A j \in ChunkHitsOf(Entries[i].metadata.filename) :
                RawHits[j].score <= Entries[i].score

\* the number of the records of list that score at least s
ScoringAtLeast(list, s) == Cardinality({i \in 1..Len(list) : list[i].score >= s})

\* C28: semantic_search returns the top_k highest-scoring candidates (all of
\* them when there are fewer): for every score, as many entries reach it as
\* candidates do, up to top_k, so that no candidate left out scores higher
\* than an entry returned.
C28_BestCandidatesKept ==
    (Called /\ ~search_result.raised) =>
        LET cands == Candidates
            top_k == search_call.top_k
            kept  == IF Len(cands) < top_k THEN Len(cands) ELSE top_k
        IN /\ Len(Entries) = kept
           /\ \A c \in 1..Len(cands) :
                 LET reach == ScoringAtLeast(cands, cands[c].score)
                 IN ScoringAtLeast(Entries, cands[c].score)
                       = IF reach < top_k THEN reach ELSE top_k

\* C28's case: more candidates than top_k, a merged one among them, and a
\* candidate collected before a higher-scoring one is left out while the
\* higher-scoring one is returned.
C28_Witness ==
    /\ Called /\ ~search_result.raised
    /\ Len(Entries) > 0
    /\ LET cands == Candidates
       IN /\ Len(cands) > search_call.top_k
          /\ \E m \in 1..Len(cands) : IsMergedCandidate(cands[m])
          /\ \E i, j \in 1..Len(cands) :
                /\ i < j
                /\ cands[i].score < cands[j].score
                /\ \A n \in 1..Len(Entries) : Entries[n].score > cands[i].score
                /\ \E n \in 1..Len(Entries) : Entries[n].score = cands[j].score

(***************************************************************************)
(* Properties of the chunks of _chunk_document, under SpecChunk.           *)
(***************************************************************************)
\* C29 as stated: of a non-empty text and a max_size of at least 1, every
\* chunk returned is a non-empty string.
C29_NoEmptyChunk ==
    (ChunkCalled /\ Len(chunk_call.text) > 0 /\ chunk_call.max_chunk_size >= 1) =>
        \A i \in 1..Len(Chunks) : Len(Chunks[i]) > 0

(***************************************************************************)
(* The /query route handlers, community_search_query and                   *)
(* fast_search_query: the retriever and the responder are collaborators    *)
(* that return a value or raise; the handler answers with a response       *)
(* model or lets an exception out.                                         *)
(***************************************************************************)
\* Python values of a document or an answer: a str, None, or a callable.
PyStr(s) == [tag |-> "str", v |-> s]
PyNum(n) == [tag |-> "num", v |-> n]
PyDict(d) == [tag |-> "dict", v |-> d]
PyList(l) == [tag |-> "list", v |-> l]
PyNone == [tag |-> "None", v |-> ""]
PyCallable == [tag |-> "callable", v |-> ""]
IsStr(x) == x.tag = "str"
IsNum(x) == x.tag = "num"
IsDict(x) == x.tag = "dict"

\* str(obj) of a function: its repr, which names the function and the
\* address of the object; one string stands for it
FunctionRepr == "<function>"

\* An Optional field: <<>> is None, <<x>> is the value x.
Unset == <<>>
SetTo(x) == <<x>>

\* what a collaborator does when it is called
Returns(value) == [kind |-> "returns", value |-> value]
Raises(message) == [kind |-> "raises", message |-> message]

\* str(e) of the exceptions a collaborator raises
RouteMessages == {"", "boom"}

\* str(e) of a pydantic ValidationError
ValidationError == "validation error"

\* str(e) of HTTPException(status_code=500, detail=detail)
Http500(detail) == "500: " \o detail

\* The documents (dicts) a retriever may hand back: with metadata (one
\* value of it a callable), without metadata, with a text that is None, and
\* with a text that is a callable.
RouteDocs ==
    {[text |-> PyStr("t"), score |-> PyNum(2),
      metadata |-> PyDict([source |-> PyStr("s"), loader |-> PyCallable])],
     [text |-> PyStr("u"), score |-> PyNum(1)],
     [text |-> PyNone, score |-> PyNum(1), metadata |-> PyDict(<<>>)],
     [text |-> PyCallable, score |-> PyNum(1)]}

RouteDocLists == UNION {[1..n -> RouteDocs] : n \in 0..MaxRouteDocs}

RetrieverOutcomes ==
    {Returns(docs) : docs \in RouteDocLists} \cup {Raises(m) : m \in RouteMessages}

ResponderOutcomes ==
    {Returns(PyStr("answer")), Returns(PyNone)} \cup {Raises(m) : m \in RouteMessages}

\* CommunitySearchRequest / FastSearchRequest, after validation (top_k >= 1)
RouteRequests ==
    [top_k : 1..MaxTopK, include_sources : BOOLEAN, include_metadata : BOOLEAN,
     use_fallbacks : BOOLEAN]

\* sanitize_for_json(obj), on dicts, lists, functions, str, numbers and None
\* (where the two services' functions agree): a dict is rebuilt without the
\* keys whose value is callable and with its other values sanitized, a list
\* is rebuilt item by item, a callable becomes its str, the rest is returned
\* as it is.
RECURSIVE SanitizeForJson(_)
SanitizeForJson(obj) ==
    IF obj.tag = "dict"
    THEN PyDict([k \in {x \in DOMAIN obj.v : obj.v[x].tag # "callable"} |->
                    SanitizeForJson(obj.v[k])])
    ELSE IF obj.tag = "list"
    THEN PyList([i \in 1..Len(obj.v) |-> SanitizeForJson(obj.v[i])])
    ELSE IF obj.tag = "callable"
    THEN PyStr(FunctionRepr)
    ELSE obj

\* `retrieved_docs = sanitize_for_json(retrieved_docs)` on the list of
\* documents the retriever returned: every document is rebuilt (its keys
\* with a callable value are dropped), the metadata dict inside it too
SanitizeDocs(docs) ==
    LET sanitized == SanitizeForJson(PyList([i \in 1..Len(docs) |-> PyDict(docs[i])])).v
    IN [i \in 1..Len(sanitized) |-> sanitized[i].v]

\* CommunitySearchSource(text=..., score=...): text must be a str and score
\* a number; metadata is set by assignment afterwards, which validates
\* nothing
CommunitySourceIsValid(doc) ==
    /\ IsStr(Get(doc, "text", PyStr("")))
    /\ IsNum(Get(doc, "score", PyNum(0)))

\* FastSearchSource(text=..., score=..., metadata=...): text must be a str,
\* score a number and metadata a dict
FastSourceIsValid(doc, include_metadata) ==
    /\ IsStr(Get(doc, "text", PyStr("")))
    /\ IsNum(Get(doc, "score", PyNum(0)))
    /\ include_metadata => IsDict(SanitizeForJson(Get(doc, "metadata", PyDict(<<>>))))

\* the source of a document in community_search_query
CommunitySource(doc, include_metadata) ==
    [text |-> Get(doc, "text", PyStr("")).v,
     score |-> Get(doc, "score", PyNum(0)).v,
     metadata |-> IF include_metadata /\ "metadata" \in DOMAIN doc
                  THEN SanitizeForJson(doc.metadata).v ELSE <<>>]

\* the source of a document in fast_search_query
FastSource(doc, include_metadata) ==
    [text |-> Get(doc, "text", PyStr("")).v,
     score |-> Get(doc, "score", PyNum(0)).v,
     metadata |-> IF include_metadata
                  THEN SanitizeForJson(Get(doc, "metadata", PyDict(<<>>))).v
                  ELSE <<>>]

\* the response models
SearchResponse(answer, sources, error, success) ==
    [answer |-> answer, sources |-> sources, error |-> error, success |-> success]

\* What a handler does: it returns a response or an exception leaves it;
\* responder_docs is what the responder was called with, if it was.
Responds(response, responder_docs) ==
    [kind |-> "response", response |-> response, responder_docs |-> responder_docs]
Propagates(message, responder_docs) ==
    [kind |-> "raised", message |-> message, responder_docs |-> responder_docs]

\* the `except Exception as e` at the end of community_search_query
CommunityFailure(message, responder_docs) ==
    Responds(SearchResponse("Sorry, I encountered an error while processing your query.",
                            Unset, SetTo(message), FALSE),
             responder_docs)

\* community_search_query(request, retriever, responder)
CommunitySearchQuery(request, retriever, responder) ==
    LET retrieved == retriever.kind = "returns"
        documents == IF retrieved THEN retriever.value ELSE <<>>
        with_sources == request.include_sources /\ Len(documents) > 0
        sources == IF with_sources
                   THEN [i \in 1..Len(documents) |->
                            CommunitySource(documents[i], request.include_metadata)]
                   ELSE <<>>
        docs_for_responder == Take(documents, request.top_k)
    IN IF ~retrieved /\ ~request.use_fallbacks
       THEN CommunityFailure(retriever.message, Unset)
       ELSE IF with_sources
               /\ \E i \in 1..Len(documents) : ~CommunitySourceIsValid(documents[i])
       THEN CommunityFailure(ValidationError, Unset)
       ELSE IF responder.kind = "raises"
       THEN CommunityFailure(responder.message, SetTo(docs_for_responder))
       ELSE IF ~IsStr(responder.value)
       THEN CommunityFailure(ValidationError, SetTo(docs_for_responder))
       ELSE Responds(SearchResponse(responder.value.v,
                                    IF request.include_sources THEN SetTo(sources)
                                    ELSE Unset,
                                    Unset, TRUE),
                     SetTo(docs_for_responder))

\* the `except Exception as e` at the end of fast_search_query
FastFailure(message, responder_docs) ==
    Responds(SearchResponse("An unexpected error occurred while processing your query.",
                            Unset, SetTo(message), FALSE),
             responder_docs)

\* A plausible slip: the HTTPException raised for a request without
\* fallbacks leaves the handler, as FastAPI would need to answer with 500.
HttpError_propagates(detail, responder_docs) == Propagates(Http500(detail), responder_docs)

\* raise HTTPException(status_code=500, detail=str(e)) inside the handler's
\* try: HTTPException is an Exception, so the last except clause takes it.
HttpError(detail, responder_docs) == FastFailure(Http500(detail), responder_docs)

\* fast_search_query(request, retriever, responder)
FastSearchQuery(request, retriever, responder) ==
    LET retrieved == retriever.kind = "returns"
        retrieved_docs == IF retrieved THEN SanitizeDocs(retriever.value) ELSE <<>>
        sources == [i \in 1..Len(retrieved_docs) |->
                       FastSource(retrieved_docs[i], request.include_metadata)]
    IN IF ~retrieved
       THEN IF request.use_fallbacks
            THEN Responds(SearchResponse(
                     "I'm having trouble retrieving information at the moment. Please try again later.",
                     Unset, SetTo("Retrieval error: " \o retriever.message), FALSE),
                     Unset)
            ELSE HttpError(retriever.message, Unset)
       ELSE IF responder.kind = "raises"
       THEN IF request.use_fallbacks
            THEN Responds(SearchResponse(
                     "I'm having trouble generating a response at the moment. Please try again later.",
                     Unset, SetTo("Response generation error: " \o responder.message), FALSE),
                     SetTo(retrieved_docs))
            ELSE HttpError(responder.message, SetTo(retrieved_docs))
       ELSE IF ~IsStr(responder.value)
       THEN FastFailure(ValidationError, SetTo(retrieved_docs))
       ELSE IF request.include_sources
               /\ \E i \in 1..Len(retrieved_docs) :
                      ~FastSourceIsValid(retrieved_docs[i], request.include_metadata)
       THEN FastFailure(ValidationError, SetTo(retrieved_docs))
       ELSE Responds(SearchResponse(responder.value.v,
                                    IF request.include_sources THEN SetTo(sources)
                                    ELSE Unset,
                                    Unset, TRUE),
                     SetTo(retrieved_docs))

InitRoute ==
    /\ route_call = NoRouteCall
    /\ search_call = NoCall("pinecone")
    /\ search_result = Returned(<<>>)
    /\ store = <<>>
    /\ ingest = IngestConstructed("pinecone", <<>>)
    /\ chunk_call = NoChunkCall(<<>>, MaxChunkSize)
    /\ concurrent = NoConcurrentCalls
    /\ embed_call = NoEmbedCall
    /\ parse_call = NoParseCall

\* One request to POST /query of the community search service.
CommunitySearchQueryCall ==
    /\ ~route_call.called
    /\ \E request \in RouteRequests, retriever \in RetrieverOutcomes,
          responder \in ResponderOutcomes :
          route_call' = [called |-> TRUE, handler |-> "community_search_query",
                         request |-> request, retriever |-> retriever,
                         responder |-> responder,
                         outcome |-> CommunitySearchQuery(request, retriever, responder)]
    /\ UNCHANGED <<search_call, search_result, store, ingest, chunk_call, concurrent,
                   embed_call, parse_call>>

\* One request to POST /query of the fast search service.
FastSearchQueryCall ==
    /\ ~route_call.called
    /\ \E request \in RouteRequests, retriever \in RetrieverOutcomes,
          responder \in ResponderOutcomes :
          route_call' = [called |-> TRUE, handler |-> "fast_search_query",
                         request |-> request, retriever |-> retriever,
                         responder |-> responder,
                         outcome |-> FastSearchQuery(request, retriever, responder)]
    /\ UNCHANGED <<search_call, search_result, store, ingest, chunk_call, concurrent,
                   embed_call, parse_call>>

NextRoute == CommunitySearchQueryCall \/ FastSearchQueryCall

SpecRoute == InitRoute /\ [][NextRoute]_vars

(***************************************************************************)
(* Properties of the /query route handlers, under SpecRoute.               *)
(***************************************************************************)
RouteFailed(collaborator) == collaborator.kind = "raises"

\* the response reports a failure: success is false and error is set
ReportsFailure(response) == ~response.success /\ response.error # Unset

\* the failure of the retriever was absorbed by the fallback: the responder
\* was asked with no documents and the handler answers with its answer
AbsorbedByFallback ==
    /\ route_call.request.use_fallbacks
    /\ RouteFailed(route_call.retriever)
    /\ ~RouteFailed(route_call.responder)
    /\ route_call.outcome.responder_docs = SetTo(<<>>)
    /\ route_call.outcome.response.success

\* C30: whatever the retriever or the responder raises, with use_fallbacks
\* true or false, no exception and no HTTP error leaves a /query handler:
\* it returns a response, and the response has success = false and error
\* set whenever a failure was not absorbed by a fallback.
C30_HandlersAlwaysRespond ==
    route_call.called =>
        /\ route_call.outcome.kind = "response"
        /\ (RouteFailed(route_call.retriever) \/ RouteFailed(route_call.responder))
              => (ReportsFailure(route_call.outcome.response) \/ AbsorbedByFallback)
        /\ ~route_call.request.use_fallbacks
              /\ (RouteFailed(route_call.retriever) \/ RouteFailed(route_call.responder))
              => ReportsFailure(route_call.outcome.response)
        /\ route_call.outcome.response.success
              <=> route_call.outcome.response.error = Unset

\* C30's case: fast_search_query without fallbacks raises its HTTPException
\* for a retriever that failed, and the caller still gets a response, which
\* carries the HTTP error as its error.
C30_Witness ==
    /\ route_call.called
    /\ route_call.handler = "fast_search_query"
    /\ ~route_call.request.use_fallbacks
    /\ route_call.retriever = Raises("boom")
    /\ route_call.outcome.kind = "response"
    /\ route_call.outcome.response.error = SetTo(Http500("boom"))

====
